---- MODULE Spec2Model ----
(***************************************************************************)
(* The balance-ledger transaction engine of the trading-journal backend:   *)
(* the order router (app/routers/order.py) on top of the PostgreSQL store  *)
(* (app/db/database.py).  Every request is handled by its own coroutine;   *)
(* every await of a handler is one step.  The store is PostgreSQL at its   *)
(* default isolation level READ COMMITTED: a statement reads the committed *)
(* rows, an UPDATE takes the row lock until its transaction ends and       *)
(* applies its SET to the latest committed version of the row, and the     *)
(* writes of a transaction become visible together at commit.  Decimal     *)
(* amounts are integers counted in the smallest unit.                      *)
(***************************************************************************)
EXTENDS Integers, FiniteSets, Sequences, TLC

\* ---- bounds of the model ----
MaxCalls == 3

Procs == {"c1", "c2"}
Accounts == {1}
Symbols == {"BTCUSDT", "ETHUSDT"}
Quantities == {1, 2}
Prices == {1, 2}
InitialBalances == {2}

\* ---- constants of the program ----
NULL == "NULL"
STATUS_ACTIVE == 1
STATUS_CLOSED == 2
ERROR_INSUFFICIENT_BALANCE == "insufficient balance"
ERROR_DUPLICATE_ORDER == "rejection"
ERROR_ORDER_NOT_FOUND == "order not found"
ERROR_BINANCE_CONNECTION == "Binance API connection failed"
ERROR_BINANCE_INVALID_RESPONSE == "Invalid response from Binance API"
SUCCESS_ORDER_CLOSED == "sell order complete"
ORDER_CREATED == "created"
USER_NOT_FOUND == "User not found"
UserNotFound(user_id) == "User " \o ToString(user_id) \o " not found"
STORAGE_ERROR == "storage error"

\* The exceptions get_current_price raises: the message is the constant of
\* the error followed by what went wrong.
BinanceConnectionError(cause) ==
    [class |-> "BinanceConnectionError",
     message |-> ERROR_BINANCE_CONNECTION \o ": " \o cause]
BinanceInvalidResponseError(cause) ==
    [class |-> "BinanceInvalidResponseError",
     message |-> ERROR_BINANCE_INVALID_RESPONSE \o ": " \o cause]
OracleFailures ==
    {BinanceConnectionError("HTTP 503"), BinanceConnectionError("Request timeout"),
     BinanceInvalidResponseError("HTTP 400")}

\* The except clauses of the routers around get_current_price: 503 for a
\* BinanceConnectionError, 500 for the other errors, detail=str(e).
OracleResponse(e) ==
    [code |-> IF e.class = "BinanceConnectionError" THEN 503 ELSE 500,
     detail |-> e.message]

VARIABLES
    balance,      \* users.balance, committed, per account
    transact,     \* the committed rows of table transact
    nextId,       \* the SERIAL sequence of transact.id
    pc,           \* where each request coroutine stands
    req,          \* the request a coroutine serves (or served last)
    user_balance, \* create_order_atomic: the balance its SELECT returned
    transaction,  \* the row the INSERT (create) or the SELECT (close) returned
    txn,          \* the uncommitted writes of each coroutine's transaction
    result,       \* the response of the last finished call of each coroutine
    calls,        \* number of calls of the order router started so far
    funded,       \* history: the balance each account was funded with
    opened,       \* history: total cost of the opens that returned success
    closed,       \* history: total proceeds of the closes that returned success
    debited,      \* history: the committed debits, by position id
    credited,     \* history: the committed credits, by position id
    adjusted,     \* history: net amount of the update_user_balance calls that returned
    conc,         \* history: the calls that overlapped each coroutine's call
    startRows,    \* history: id and status of the rows of (user, symbol) at call start
    now,          \* the clock of the store, read by DEFAULT now() of created_at
    _db_pool,     \* the global _db_pool: the pool in use, NoPool for None
    pool,         \* the pool each coroutine's get_db_pool returned or close_db_pool closes
    pool_state,   \* every pool created so far, in order of creation: "open" or "closed"
    epoch         \* history: the pools created since the last close_db_pool returned

vars == <<balance, transact, nextId, pc, req, user_balance, transaction, txn, result,
          calls, funded, opened, closed, debited, credited, adjusted, conc, startRows, now,
          _db_pool, pool, pool_state, epoch>>

\* The state of the connection pool.
db == <<_db_pool, pool, pool_state, epoch>>

hist == <<funded, opened, closed, debited, credited, adjusted>>

\* ---- helpers ----
\* _db_pool = None.
NoPool == 0

\* lifespan, before the yield: await get_db_pool() has created the first pool
\* (init_db changes no state of the model); requests are served from here on.
lifespan ==
    /\ _db_pool = 1
    /\ pool = [p \in Procs |-> NoPool]
    /\ pool_state = <<"open">>
    /\ epoch = {1}

NoTxn == [ins |-> {}, upd |-> {}, delta |-> 0, user |-> 0, debit |-> {}, credit |-> {}]

NoReq == [op |-> "none", user_id |-> 0, symbol |-> NULL, quantity |-> 0, price |-> 0]

NoRow == [id |-> 0]

InFlight(p) == pc[p] # "idle"

\* p stands inside the conn.transaction() block of an atomic function.
InTransaction(p) ==
    pc[p] \in {"atomic_insert", "atomic_update", "atomic_commit",
               "close_update", "close_credit", "close_commit"}

\* The users row of account u is locked by a transaction other than p's.
UserLocked(p, u) == \E q \in Procs \ {p} : txn[q].user = u

\* The transact row id is locked by a transaction other than p's.
RowLocked(p, id) == \E q \in Procs \ {p} : \E w \in txn[q].upd : w.id = id

\* As ActiveRows, with status = 1 missing from the WHERE clause.
ActiveRows_any_status(u, s) ==
    {r \in transact : r.user_id = u /\ r.symbol = s}

\* As ActiveRows, with user_id = $1 missing from the WHERE clause.
ActiveRows_any_user(u, s) ==
    {r \in transact : r.symbol = s /\ r.status = STATUS_ACTIVE}

\* SELECT ... FROM transact WHERE user_id = $1 AND symbol = $2 AND status = 1
ActiveRows(u, s) ==
    {r \in transact : r.user_id = u /\ r.symbol = s /\ r.status = STATUS_ACTIVE}

\* The rows of transact after the UPDATEs of a transaction are applied.
ApplyUpdates(rows, upd) ==
    {IF \E w \in upd : w.id = r.id
        THEN [r EXCEPT !.sell_price = (CHOOSE w \in upd : w.id = r.id).sell_price,
                       !.status = STATUS_CLOSED]
        ELSE r : r \in rows}

Respond(p, code, detail) ==
    /\ pc' = [pc EXCEPT ![p] = "idle"]
    /\ result' = [result EXCEPT ![p] = [code |-> code, detail |-> detail]]

\* Bookkeeping when coroutine p starts a call for (u, s).
StartCall(p, u, s) ==
    /\ calls < MaxCalls
    /\ calls' = calls + 1
    /\ conc' = [q \in Procs |->
                  IF q = p THEN {x \in Procs \ {p} : InFlight(x)}
                  ELSE IF InFlight(q) THEN conc[q] \cup {p}
                  ELSE conc[q] \ {p}]
    /\ startRows' = [startRows EXCEPT ![p] =
          {[id |-> r.id, status |-> r.status] :
              r \in {x \in transact : x.user_id = u /\ x.symbol = s}}]

\* The accounts are registered (create_user) and funded (update_user_balance
\* with "add") before the first order call; no position exists.
Init ==
    /\ \E b \in InitialBalances :
         /\ balance = [u \in Accounts |-> b]
         /\ funded = [u \in Accounts |-> b]
    /\ transact = {}
    /\ nextId = 1
    /\ pc = [p \in Procs |-> "idle"]
    /\ req = [p \in Procs |-> NoReq]
    /\ user_balance = [p \in Procs |-> 0]
    /\ transaction = [p \in Procs |-> NoRow]
    /\ txn = [p \in Procs |-> NoTxn]
    /\ result = [p \in Procs |-> [code |-> 0, detail |-> "none"]]
    /\ calls = 0
    /\ opened = [u \in Accounts |-> 0]
    /\ closed = [u \in Accounts |-> 0]
    /\ debited = {}
    /\ credited = {}
    /\ adjusted = [u \in Accounts |-> 0]
    /\ conc = [p \in Procs |-> {}]
    /\ startRows = [p \in Procs |-> {}]
    /\ now = 0
    /\ lifespan

\* ---- create_order: POST /order ----
\* A validated request (symbol, quantity) of an authenticated user arrives.
\* users: the ids current_user may carry; symbols, quantities: what the body
\* may carry.
create_order_for(p, users, symbols, quantities) ==
    /\ pc[p] = "idle"
    /\ \E u \in users, s \in symbols, q \in quantities :
         /\ StartCall(p, u, s)
         /\ req' = [req EXCEPT ![p] = [op |-> "open", user_id |-> u, symbol |-> s,
                                       quantity |-> q, price |-> 0]]
    /\ pc' = [pc EXCEPT ![p] = "create_order_price"]
    /\ result' = [result EXCEPT ![p] = [code |-> 0, detail |-> "none"]]
    /\ UNCHANGED <<balance, transact, nextId, user_balance, transaction, txn, hist, now, db>>

\* get_current_user answers 401 unless the users row exists.
create_order(p) == create_order_for(p, DOMAIN balance, Symbols, Quantities)

\* As create_order_price, with the position row written before the price is
\* fetched: a failure of the oracle leaves the row behind.
create_order_price_row_first(p) ==
    /\ pc[p] = "create_order_price"
    /\ \/ \E failure \in OracleFailures :
            /\ Respond(p, OracleResponse(failure).code, OracleResponse(failure).detail)
            /\ transact' = transact \cup
                  {[id |-> nextId, symbol |-> req[p].symbol, buy_price |-> 0,
                    sell_price |-> NULL, status |-> STATUS_ACTIVE,
                    quantity |-> req[p].quantity, user_id |-> req[p].user_id,
                    created_at |-> now]}
            /\ nextId' = nextId + 1
            /\ UNCHANGED req
       \/ \E quote \in Prices :
            /\ req' = [req EXCEPT ![p].price = quote]
            /\ pc' = [pc EXCEPT ![p] = "create_order_balance"]
            /\ UNCHANGED <<result, transact, nextId>>
    /\ UNCHANGED <<balance, user_balance, transaction, txn, calls,
                   hist, conc, startRows, now, db>>

\* As create_order_get_current_price, with the duplicate check placed before
\* the balance check of the router (which is then left to create_order_atomic).
create_order_get_current_price_duplicate_first(p, quotes) ==
    /\ pc[p] = "create_order_price"
    /\ \/ \E failure \in OracleFailures :
            /\ Respond(p, OracleResponse(failure).code, OracleResponse(failure).detail)
            /\ UNCHANGED req
       \/ \E quote \in quotes :
            /\ req' = [req EXCEPT ![p].price = quote]
            /\ pc' = [pc EXCEPT ![p] = "create_order_duplicate"]
            /\ UNCHANGED result
    /\ UNCHANGED <<balance, transact, nextId, user_balance, transaction, txn, calls,
                   hist, conc, startRows, now, db>>

\* get_current_price returns a price or raises; the router maps a
\* BinanceConnectionError to 503 and the other oracle errors to 500.
\* quotes: the prices the oracle may answer with.
create_order_get_current_price(p, quotes) ==
    /\ pc[p] = "create_order_price"
    /\ \/ \E failure \in OracleFailures :
            /\ Respond(p, OracleResponse(failure).code, OracleResponse(failure).detail)
            /\ UNCHANGED req
       \/ \E quote \in quotes :
            /\ req' = [req EXCEPT ![p].price = quote]
            /\ pc' = [pc EXCEPT ![p] = "create_order_balance"]
            /\ UNCHANGED result
    /\ UNCHANGED <<balance, transact, nextId, user_balance, transaction, txn, calls,
                   hist, conc, startRows, now, db>>

create_order_price(p) == create_order_get_current_price(p, Prices)

total_cost(p) == req[p].price * req[p].quantity

\* As create_order_check_balance, with a missing users row read as a balance
\* of 0: the answer is "insufficient balance" or, for a free order, none.
create_order_check_balance_absent_is_zero(p) ==
    /\ pc[p] = "create_order_balance"
    /\ IF (IF req[p].user_id \in DOMAIN balance THEN balance[req[p].user_id] ELSE 0)
            < total_cost(p)
       THEN Respond(p, 400, ERROR_INSUFFICIENT_BALANCE)
       ELSE /\ pc' = [pc EXCEPT ![p] = "create_order_duplicate"]
            /\ UNCHANGED result
    /\ UNCHANGED <<balance, transact, nextId, req, user_balance, transaction, txn, calls,
                   hist, conc, startRows, now, db>>

\* get_user_with_balance and the balance check of the router; the lookup
\* returns None when the users row is gone and the router answers 404.
create_order_check_balance(p) ==
    /\ pc[p] = "create_order_balance"
    /\ IF req[p].user_id \notin DOMAIN balance
       THEN Respond(p, 404, USER_NOT_FOUND)
       ELSE IF balance[req[p].user_id] < total_cost(p)
       THEN Respond(p, 400, ERROR_INSUFFICIENT_BALANCE)
       ELSE /\ pc' = [pc EXCEPT ![p] = "create_order_duplicate"]
            /\ UNCHANGED result
    /\ UNCHANGED <<balance, transact, nextId, req, user_balance, transaction, txn, calls,
                   hist, conc, startRows, now, db>>

\* As create_order_check_duplicate, with the duplicate check left out.
create_order_check_duplicate_skipped(p) ==
    /\ pc[p] = "create_order_duplicate"
    /\ pc' = [pc EXCEPT ![p] = "atomic_select"]
    /\ UNCHANGED <<balance, transact, nextId, req, user_balance, transaction, txn, result,
                   calls, hist, conc, startRows, now, db>>

\* get_active_transaction and the duplicate check of the router.
create_order_check_duplicate(p) ==
    /\ pc[p] = "create_order_duplicate"
    /\ IF ActiveRows(req[p].user_id, req[p].symbol) # {}
       THEN Respond(p, 400, ERROR_DUPLICATE_ORDER)
       ELSE /\ pc' = [pc EXCEPT ![p] = "atomic_select"]
            /\ UNCHANGED result
    /\ UNCHANGED <<balance, transact, nextId, req, user_balance, transaction, txn, calls,
                   hist, conc, startRows, now, db>>

\* As create_order_atomic_select, with the comparison written <= instead of <.
create_order_atomic_select_nonstrict(p) ==
    /\ pc[p] = "atomic_select"
    /\ IF req[p].user_id \notin DOMAIN balance
       THEN /\ Respond(p, 400, UserNotFound(req[p].user_id))
            /\ UNCHANGED user_balance
       ELSE IF balance[req[p].user_id] <= total_cost(p)
       THEN /\ Respond(p, 400, ERROR_INSUFFICIENT_BALANCE)
            /\ UNCHANGED user_balance
       ELSE /\ user_balance' = [user_balance EXCEPT ![p] = balance[req[p].user_id]]
            /\ pc' = [pc EXCEPT ![p] = "atomic_insert"]
            /\ UNCHANGED result
    /\ UNCHANGED <<balance, transact, nextId, req, transaction, txn, calls,
                   hist, conc, startRows, now, db>>

\* create_order_atomic: BEGIN; SELECT balance FROM users WHERE id = $1; a
\* missing row raises ValueError, which the router answers with 400 and the
\* message of the exception.
create_order_atomic_select(p) ==
    /\ pc[p] = "atomic_select"
    /\ IF req[p].user_id \notin DOMAIN balance
       THEN /\ Respond(p, 400, UserNotFound(req[p].user_id))
            /\ UNCHANGED user_balance
       ELSE IF balance[req[p].user_id] < total_cost(p)
       THEN /\ Respond(p, 400, ERROR_INSUFFICIENT_BALANCE)
            /\ UNCHANGED user_balance
       ELSE /\ user_balance' = [user_balance EXCEPT ![p] = balance[req[p].user_id]]
            /\ pc' = [pc EXCEPT ![p] = "atomic_insert"]
            /\ UNCHANGED result
    /\ UNCHANGED <<balance, transact, nextId, req, transaction, txn, calls,
                   hist, conc, startRows, now, db>>

\* The row INSERT INTO transact ... VALUES ($1, $2, $3, $4, 1) creates.
NewRow(p) ==
    [id |-> nextId, symbol |-> req[p].symbol, buy_price |-> req[p].price,
     sell_price |-> NULL, status |-> STATUS_ACTIVE, quantity |-> req[p].quantity,
     user_id |-> req[p].user_id, created_at |-> now]

\* As create_order_atomic_insert, with the INSERT run on a connection of its own
\* (as create_transaction does), outside the transaction of the debit.
create_order_atomic_insert_autocommit(p) ==
    /\ pc[p] = "atomic_insert"
    /\ transact' = transact \cup {NewRow(p)}
    /\ transaction' = [transaction EXCEPT ![p] = NewRow(p)]
    /\ nextId' = nextId + 1
    /\ pc' = [pc EXCEPT ![p] = "atomic_update"]
    /\ UNCHANGED <<balance, req, user_balance, txn, result, calls,
                   hist, conc, startRows, now, db>>

\* create_order_atomic: INSERT INTO transact ... RETURNING ...
create_order_atomic_insert(p) ==
    /\ pc[p] = "atomic_insert"
    /\ txn' = [txn EXCEPT ![p].ins = {NewRow(p)}]
    /\ transaction' = [transaction EXCEPT ![p] = NewRow(p)]
    /\ nextId' = nextId + 1
    /\ pc' = [pc EXCEPT ![p] = "atomic_update"]
    /\ UNCHANGED <<balance, transact, req, user_balance, result, calls,
                   hist, conc, startRows, now, db>>

\* As DebitDelta, with the new balance computed from the balance the SELECT
\* returned (SET balance = $1) instead of the balance of the row.
DebitDelta_stale(p) == (user_balance[p] - total_cost(p)) - balance[req[p].user_id]

\* The change UPDATE users SET balance = balance - $1 makes to the balance.
DebitDelta(p) == 0 - total_cost(p)

\* create_order_atomic: UPDATE users SET balance = balance - $1 WHERE id = $2
create_order_atomic_update(p) ==
    /\ pc[p] = "atomic_update"
    /\ ~ UserLocked(p, req[p].user_id)
    /\ txn' = [txn EXCEPT ![p].user = req[p].user_id,
                          ![p].delta = DebitDelta(p),
                          ![p].debit = {[id |-> transaction[p].id, user_id |-> req[p].user_id,
                                         amount |-> total_cost(p)]}]
    /\ pc' = [pc EXCEPT ![p] = "atomic_commit"]
    /\ UNCHANGED <<balance, transact, nextId, req, user_balance, transaction, result, calls,
                   hist, conc, startRows, now, db>>

\* As Commit, with the lock on the users row not released when the
\* transaction ends.
Commit_keeps_lock(p) ==
    /\ transact' = ApplyUpdates(transact, txn[p].upd) \cup txn[p].ins
    /\ balance' = IF txn[p].user = 0 THEN balance
                  ELSE [balance EXCEPT ![txn[p].user] = @ + txn[p].delta]
    /\ debited' = debited \cup txn[p].debit
    /\ credited' = credited \cup
          {[id |-> c.id, user_id |-> c.user_id, amount |-> c.amount,
            n |-> Cardinality({d \in credited : d.id = c.id}) + 1] : c \in txn[p].credit}
    /\ txn' = [txn EXCEPT ![p] = [NoTxn EXCEPT !.user = txn[p].user]]

\* COMMIT: the writes of p's transaction become visible together.
Commit(p) ==
    /\ transact' = ApplyUpdates(transact, txn[p].upd) \cup txn[p].ins
    /\ balance' = IF txn[p].user = 0 THEN balance
                  ELSE [balance EXCEPT ![txn[p].user] = @ + txn[p].delta]
    /\ debited' = debited \cup txn[p].debit
    /\ credited' = credited \cup
          {[id |-> c.id, user_id |-> c.user_id, amount |-> c.amount,
            n |-> Cardinality({d \in credited : d.id = c.id}) + 1] : c \in txn[p].credit}
    /\ txn' = [txn EXCEPT ![p] = NoTxn]

\* create_order_atomic: the transaction block ends, the row is returned and
\* create_order answers 201 with the serialized order.
create_order_atomic_commit(p) ==
    /\ pc[p] = "atomic_commit"
    /\ Commit(p)
    /\ opened' = [opened EXCEPT ![req[p].user_id] = @ + total_cost(p)]
    /\ Respond(p, 201, ORDER_CREATED)
    /\ user_balance' = [user_balance EXCEPT ![p] = 0]
    /\ transaction' = [transaction EXCEPT ![p] = NoRow]
    /\ UNCHANGED <<nextId, req, calls, funded, closed, adjusted,
                   conc, startRows, now, db>>

\* ---- close_order: DELETE /order ----
\* A validated request (symbol) of an authenticated user arrives.
\* symbols: what the body may carry.
close_order_for(p, symbols) ==
    /\ pc[p] = "idle"
    /\ \E u \in DOMAIN balance, s \in symbols :
         /\ StartCall(p, u, s)
         /\ req' = [req EXCEPT ![p] = [op |-> "close", user_id |-> u, symbol |-> s,
                                       quantity |-> 0, price |-> 0]]
    /\ pc' = [pc EXCEPT ![p] = "close_order_price"]
    /\ result' = [result EXCEPT ![p] = [code |-> 0, detail |-> "none"]]
    /\ UNCHANGED <<balance, transact, nextId, user_balance, transaction, txn, hist, now, db>>

close_order(p) == close_order_for(p, Symbols)

\* As close_order_price, with the position marked CLOSED before the price is
\* fetched: a failure of the oracle leaves it CLOSED without a sell_price.
close_order_price_closes_first(p) ==
    /\ pc[p] = "close_order_price"
    /\ \/ \E failure \in OracleFailures :
            /\ Respond(p, OracleResponse(failure).code, OracleResponse(failure).detail)
            /\ transact' = ApplyUpdates(transact,
                  {[id |-> r.id, sell_price |-> NULL] :
                      r \in ActiveRows(req[p].user_id, req[p].symbol)})
            /\ UNCHANGED req
       \/ \E quote \in Prices :
            /\ req' = [req EXCEPT ![p].price = quote]
            /\ pc' = [pc EXCEPT ![p] = "close_select"]
            /\ UNCHANGED <<result, transact>>
    /\ UNCHANGED <<balance, nextId, user_balance, transaction, txn, calls,
                   hist, conc, startRows, now, db>>

\* get_current_price returns or raises, before close_order_atomic is called.
\* quotes: the prices the oracle may answer with.
close_order_get_current_price(p, quotes) ==
    /\ pc[p] = "close_order_price"
    /\ \/ \E failure \in OracleFailures :
            /\ Respond(p, OracleResponse(failure).code, OracleResponse(failure).detail)
            /\ UNCHANGED req
       \/ \E quote \in quotes :
            /\ req' = [req EXCEPT ![p].price = quote]
            /\ pc' = [pc EXCEPT ![p] = "close_select"]
            /\ UNCHANGED result
    /\ UNCHANGED <<balance, transact, nextId, user_balance, transaction, txn, calls,
                   hist, conc, startRows, now, db>>

close_order_price(p) == close_order_get_current_price(p, Prices)

\* close_order_atomic: BEGIN; SELECT ... WHERE user_id = $1 AND symbol = $2 AND status = 1
\* fetchrow returns one of the matching rows.
close_order_atomic_select(p) ==
    /\ pc[p] = "close_select"
    /\ IF ActiveRows(req[p].user_id, req[p].symbol) = {}
       THEN /\ Respond(p, 400, ERROR_ORDER_NOT_FOUND)
            /\ UNCHANGED transaction
       ELSE /\ \E r \in ActiveRows(req[p].user_id, req[p].symbol) :
                 transaction' = [transaction EXCEPT ![p] = r]
            /\ pc' = [pc EXCEPT ![p] = "close_update"]
            /\ UNCHANGED result
    /\ UNCHANGED <<balance, transact, nextId, req, user_balance, txn, calls,
                   hist, conc, startRows, now, db>>

\* As close_order_atomic_update, with the UPDATE run on a connection of its own
\* (as update_transaction does), outside the transaction of the credit.
close_order_atomic_update_autocommit(p) ==
    /\ pc[p] = "close_update"
    /\ ~ RowLocked(p, transaction[p].id)
    /\ transact' = ApplyUpdates(transact, {[id |-> transaction[p].id, sell_price |-> req[p].price]})
    /\ pc' = [pc EXCEPT ![p] = "close_credit"]
    /\ UNCHANGED <<balance, nextId, req, user_balance, transaction, txn, result, calls,
                   hist, conc, startRows, now, db>>

\* close_order_atomic: UPDATE transact SET sell_price = $1, status = 2 WHERE id = $2
\* It waits for the row lock; the row still matches WHERE id = $2 whatever
\* another transaction has committed to it meanwhile.
close_order_atomic_update(p) ==
    /\ pc[p] = "close_update"
    /\ ~ RowLocked(p, transaction[p].id)
    /\ txn' = [txn EXCEPT ![p].upd = {[id |-> transaction[p].id, sell_price |-> req[p].price]}]
    /\ pc' = [pc EXCEPT ![p] = "close_credit"]
    /\ UNCHANGED <<balance, transact, nextId, req, user_balance, transaction, result, calls,
                   hist, conc, startRows, now, db>>

\* As total_proceeds, with the quantity taken from the request instead of the
\* row the SELECT returned.
total_proceeds_of_request(p) == req[p].price * req[p].quantity

\* As total_proceeds, with the proceeds computed from the buy price of the row.
total_proceeds_at_buy_price(p) == transaction[p].buy_price * transaction[p].quantity

\* close_order_atomic: total_proceeds = sell_price * quantity
total_proceeds(p) == req[p].price * transaction[p].quantity

\* close_order_atomic: UPDATE users SET balance = balance + $1 WHERE id = $2
close_order_atomic_credit(p) ==
    /\ pc[p] = "close_credit"
    /\ ~ UserLocked(p, req[p].user_id)
    /\ txn' = [txn EXCEPT ![p].user = req[p].user_id,
                          ![p].delta = total_proceeds(p),
                          ![p].credit = {[id |-> transaction[p].id, user_id |-> req[p].user_id,
                                          amount |-> total_proceeds(p)]}]
    /\ pc' = [pc EXCEPT ![p] = "close_commit"]
    /\ UNCHANGED <<balance, transact, nextId, req, user_balance, transaction, result, calls,
                   hist, conc, startRows, now, db>>

\* close_order_atomic: the transaction block ends and close_order answers 200.
close_order_atomic_commit(p) ==
    /\ pc[p] = "close_commit"
    /\ Commit(p)
    /\ closed' = [closed EXCEPT ![req[p].user_id] = @ + total_proceeds(p)]
    /\ Respond(p, 200, SUCCESS_ORDER_CLOSED)
    /\ transaction' = [transaction EXCEPT ![p] = NoRow]
    /\ UNCHANGED <<nextId, req, user_balance, calls, funded, opened, adjusted,
                   conc, startRows, now, db>>

\* As Rollback, with the statements of the atomic functions run without
\* conn.transaction(): what was written before the exception stays.
Rollback_keeps_writes(p) ==
    /\ InTransaction(p)
    /\ Commit(p)
    /\ user_balance' = [user_balance EXCEPT ![p] = 0]
    /\ transaction' = [transaction EXCEPT ![p] = NoRow]
    /\ Respond(p, 500, STORAGE_ERROR)
    /\ UNCHANGED <<nextId, req, calls, funded, opened, closed, adjusted,
                   conc, startRows, now, db>>

\* As Rollback, with the atomic function called again after the exception
\* (a retry loop around create_order_atomic / close_order_atomic).
Rollback_retry(p) ==
    /\ InTransaction(p)
    /\ txn' = [txn EXCEPT ![p] = NoTxn]
    /\ user_balance' = [user_balance EXCEPT ![p] = 0]
    /\ transaction' = [transaction EXCEPT ![p] = NoRow]
    /\ pc' = [pc EXCEPT ![p] = IF req[p].op = "open" THEN "atomic_select"
                                                      ELSE "close_select"]
    /\ UNCHANGED <<balance, transact, nextId, req, result, calls,
                   hist, conc, startRows, now, db>>

\* ---- a call that is abandoned ----
\* An exception other than ValueError (lost connection, cancelled request, crash)
\* at an await inside the transaction block: conn.transaction() rolls back and
\* the routers answer 500.
Rollback(p) ==
    /\ InTransaction(p)
    /\ txn' = [txn EXCEPT ![p] = NoTxn]
    /\ user_balance' = [user_balance EXCEPT ![p] = 0]
    /\ transaction' = [transaction EXCEPT ![p] = NoRow]
    /\ Respond(p, 500, STORAGE_ERROR)
    /\ UNCHANGED <<balance, transact, nextId, req, calls,
                   hist, conc, startRows, now, db>>

Next ==
    \/ \E p \in Procs : create_order(p)
    \/ \E p \in Procs : create_order_price(p)
    \/ \E p \in Procs : create_order_check_balance(p)
    \/ \E p \in Procs : create_order_check_duplicate(p)
    \/ \E p \in Procs : create_order_atomic_select(p)
    \/ \E p \in Procs : create_order_atomic_insert(p)
    \/ \E p \in Procs : create_order_atomic_update(p)
    \/ \E p \in Procs : create_order_atomic_commit(p)
    \/ \E p \in Procs : close_order(p)
    \/ \E p \in Procs : close_order_price(p)
    \/ \E p \in Procs : close_order_atomic_select(p)
    \/ \E p \in Procs : close_order_atomic_update(p)
    \/ \E p \in Procs : close_order_atomic_credit(p)
    \/ \E p \in Procs : close_order_atomic_commit(p)
    \/ \E p \in Procs : Rollback(p)

Spec == Init /\ [][Next]_vars

\* ---- type correctness ----
TypeOK ==
    /\ balance \in [Accounts -> Int]
    /\ nextId \in 1..(MaxCalls + 1)
    /\ \A r \in transact : r.id \in 1..MaxCalls /\ r.status \in {STATUS_ACTIVE, STATUS_CLOSED}
    /\ calls \in 0..MaxCalls

\* ---- the API served one request at a time ----
\* Registration, validation of the request body, the oracle's whole range of
\* answers and the listing, with a single coroutine.  Quantities count
\* hundredths of a unit and amounts hundredths of a dollar; prices are in dollars.
ApiProcs == {"c1"}
NewAccounts == {2}
RawSymbols == {"", "BTCUSDT", "ethusdt"}
RawQuantities == {-1, 0, 1, 10}
Quotes == {0, 50000, 51000}
ScenarioBalances == {100000}
VALIDATION_ERROR == "validation error"
ORDERS_LISTED == "orders"

InitApi ==
    /\ \E b \in ScenarioBalances :
         /\ balance = [u \in Accounts |-> b]
         /\ funded = [u \in Accounts |-> b]
    /\ transact = {}
    /\ nextId = 1
    /\ pc = [p \in Procs |-> "idle"]
    /\ req = [p \in Procs |-> NoReq]
    /\ user_balance = [p \in Procs |-> 0]
    /\ transaction = [p \in Procs |-> NoRow]
    /\ txn = [p \in Procs |-> NoTxn]
    /\ result = [p \in Procs |-> [code |-> 0, detail |-> "none"]]
    /\ calls = 0
    /\ opened = [u \in Accounts |-> 0]
    /\ closed = [u \in Accounts |-> 0]
    /\ debited = {}
    /\ credited = {}
    /\ adjusted = [u \in Accounts |-> 0]
    /\ conc = [p \in Procs |-> {}]
    /\ startRows = [p \in Procs |-> {}]
    /\ now = 0
    /\ lifespan

\* As create_user, with a welcome balance in the VALUES list.
create_user_welcome(u) ==
    /\ \A p \in Procs : pc[p] = "idle"
    /\ u \notin DOMAIN balance
    /\ balance' = balance @@ (u :> 1)
    /\ funded' = funded @@ (u :> 1)
    /\ opened' = opened @@ (u :> 0)
    /\ closed' = closed @@ (u :> 0)
    /\ adjusted' = adjusted @@ (u :> 0)
    /\ UNCHANGED <<transact, nextId, pc, req, user_balance, transaction, txn, result,
                   calls, debited, credited, conc, startRows, now, db>>

\* register_user -> create_user: INSERT INTO users (email, password, name, balance)
\* VALUES ($1, $2, $3, 0.00000000000000000000); u is the id the row gets.
create_user(u) ==
    /\ \A p \in Procs : pc[p] = "idle"
    /\ u \notin DOMAIN balance
    /\ balance' = balance @@ (u :> 0)
    /\ funded' = funded @@ (u :> 0)
    /\ opened' = opened @@ (u :> 0)
    /\ closed' = closed @@ (u :> 0)
    /\ adjusted' = adjusted @@ (u :> 0)
    /\ UNCHANGED <<transact, nextId, pc, req, user_balance, transaction, txn, result,
                   calls, debited, credited, conc, startRows, now, db>>

\* As upper, with the symbol used as it was sent.
upper_as_sent(s) == s

\* str.upper() on the symbols of RawSymbols.
upper(s) == IF s = "ethusdt" THEN "ETHUSDT" ELSE s

\* As OrderCreate, with quantity declared ge=0 instead of gt=0.
OrderCreate_ge(symbol, quantity) ==
    /\ Len(symbol) >= 1
    /\ Len(symbol) <= 10
    /\ quantity >= 0

\* The OrderCreate schema accepts the body: symbol min_length=1, max_length=10;
\* quantity gt=0.
OrderCreate(symbol, quantity) ==
    /\ Len(symbol) >= 1
    /\ Len(symbol) <= 10
    /\ quantity > 0

\* POST /order arrives with its raw body for an authenticated user.  The clock
\* of the store has advanced since the request before.
\* symbols, quantities: what the body may carry; raw keeps the symbol as sent.
post_order_with(p, symbols, quantities) ==
    /\ pc[p] = "idle"
    /\ \E u \in DOMAIN balance, s \in symbols, q \in quantities :
         /\ StartCall(p, u, upper(s))
         /\ req' = [req EXCEPT ![p] = [op |-> "open", user_id |-> u, symbol |-> s,
                                       quantity |-> q, price |-> 0, raw |-> s]]
    /\ pc' = [pc EXCEPT ![p] = "OrderCreate"]
    /\ result' = [result EXCEPT ![p] = [code |-> 0, detail |-> "none"]]
    /\ now' = now + 1
    /\ UNCHANGED <<balance, transact, nextId, user_balance, transaction, txn, hist, db>>

post_order(p) == post_order_with(p, RawSymbols, RawQuantities)

\* DELETE /order arrives with its raw body for an authenticated user.
delete_order(p, symbols) ==
    /\ pc[p] = "idle"
    /\ \E u \in DOMAIN balance, s \in symbols :
         /\ StartCall(p, u, upper(s))
         /\ req' = [req EXCEPT ![p] = [op |-> "close", user_id |-> u, symbol |-> s,
                                       quantity |-> 0, price |-> 0, raw |-> s]]
    /\ pc' = [pc EXCEPT ![p] = "OrderClose"]
    /\ result' = [result EXCEPT ![p] = [code |-> 0, detail |-> "none"]]
    /\ UNCHANGED <<balance, transact, nextId, user_balance, transaction, txn, hist, now, db>>

\* The OrderClose schema accepts the body: symbol min_length=1, max_length=10.
OrderClose(symbol) ==
    /\ Len(symbol) >= 1
    /\ Len(symbol) <= 10

\* The body is validated against OrderClose before close_order runs;
\* close_order starts with payload.symbol.upper().
close_order_payload(p) ==
    /\ pc[p] = "OrderClose"
    /\ IF OrderClose(req[p].symbol)
       THEN /\ req' = [req EXCEPT ![p].symbol = upper(req[p].symbol)]
            /\ pc' = [pc EXCEPT ![p] = "close_order_price"]
            /\ UNCHANGED result
       ELSE /\ Respond(p, 422, VALIDATION_ERROR)
            /\ UNCHANGED req
    /\ UNCHANGED <<balance, transact, nextId, user_balance, transaction, txn, calls,
                   hist, conc, startRows, now, db>>

\* The body is validated against OrderCreate before create_order runs: an
\* invalid body is answered 422; create_order starts with payload.symbol.upper().
create_order_payload(p) ==
    /\ pc[p] = "OrderCreate"
    /\ IF OrderCreate(req[p].symbol, req[p].quantity)
       THEN /\ req' = [req EXCEPT ![p].symbol = upper(req[p].symbol)]
            /\ pc' = [pc EXCEPT ![p] = "create_order_price"]
            /\ UNCHANGED result
       ELSE /\ Respond(p, 422, VALIDATION_ERROR)
            /\ UNCHANGED req
    /\ UNCHANGED <<balance, transact, nextId, user_balance, transaction, txn, calls,
                   hist, conc, startRows, now, db>>

\* ---- list_orders: GET /order ----
\* A column value is SQL NULL (None): NULL is a string, the amounts are integers.
IsNull(v) == ToString(v) = ToString(NULL)

\* Truth value of a Decimal or None in Python: None and zero are false.
Truthy(v) == ~ IsNull(v) /\ v # 0

\* str(Decimal): the decimal text of the amount.
str(d) == ToString(d)

\* The SELECT list of get_user_transactions: the columns and the computed fields.
Projection(r) ==
    [id |-> r.id, symbol |-> r.symbol, buy_price |-> r.buy_price,
     sell_price |-> r.sell_price, status |-> r.status, quantity |-> r.quantity,
     user_id |-> r.user_id, created_at |-> r.created_at,
     diff |-> IF IsNull(r.sell_price) THEN NULL ELSE r.sell_price - r.buy_price,
     buyAggregate |-> r.buy_price * r.quantity,
     sellAggregate |-> IF IsNull(r.sell_price) THEN NULL ELSE r.sell_price * r.quantity,
     diffDollar |-> IF r.status = 2 /\ ~ IsNull(r.sell_price)
                       THEN (r.sell_price - r.buy_price) * r.quantity ELSE 0]

\* As OrderedBefore, with ORDER BY status ASC, created_at ASC.
OrderedBefore_oldest_first(a, b) ==
    \/ a.status < b.status
    \/ a.status = b.status /\ a.created_at <= b.created_at

\* As OrderedBefore, with ORDER BY status ASC only.
OrderedBefore_status_only(a, b) == a.status <= b.status

\* ORDER BY status ASC, created_at DESC: a comes before b, or they tie.
OrderedBefore(a, b) ==
    \/ a.status < b.status
    \/ a.status = b.status /\ a.created_at >= b.created_at

\* The lists a SELECT may return for the rows it matches: every arrangement of
\* the rows that ORDER BY allows (rows that tie come in any order).
Arrangements(rows) ==
    LET n == Cardinality(rows) IN
    {f \in [1..n -> rows] :
        /\ \A i, j \in 1..n : i # j => f[i] # f[j]
        /\ \A i, j \in 1..n : i < j => OrderedBefore(f[i], f[j])}

\* As get_user_transactions, with the symbol filter replacing the WHERE clause
\* (base_query rebuilt instead of extended): rows of every user are returned.
get_user_transactions_any_user(user_id, active_only, symbol) ==
    Arrangements({Projection(r) :
        r \in {x \in transact : /\ symbol = NULL => x.user_id = user_id
                                /\ active_only => x.status = 1
                                /\ symbol # NULL => x.symbol = symbol}})

\* get_user_transactions: WHERE user_id = $1 [AND status = 1] [AND symbol = $n]
\* ORDER BY status ASC, created_at DESC.  NULL stands for no symbol filter.
get_user_transactions(user_id, active_only, symbol) ==
    Arrangements({Projection(r) :
        r \in {x \in transact : /\ x.user_id = user_id
                                /\ active_only => x.status = 1
                                /\ symbol # NULL => x.symbol = symbol}})

\* _serialize_transaction: the computed fields are recomputed from buy_price,
\* quantity and sell_price; a field serialized as NULL is left out of the answer.
_serialize_transaction(record) ==
    LET buy_price == record.buy_price
        quantity == record.quantity
        sell_price == IF Truthy(record.sell_price) THEN record.sell_price ELSE NULL
        buy_aggregate == buy_price * quantity
        sell_aggregate == IF Truthy(sell_price) THEN sell_price * quantity ELSE NULL
        diff == IF Truthy(sell_price) THEN sell_price - buy_price ELSE NULL
        diff_dollar == IF record.status = 2 /\ Truthy(sell_price)
                          THEN (sell_price - buy_price) * quantity ELSE 0
    IN  [id |-> record.id, symbol |-> record.symbol,
         buy_price |-> str(buy_price),
         sell_price |-> IF Truthy(sell_price) THEN str(sell_price) ELSE NULL,
         status |-> record.status, quantity |-> str(quantity),
         user_id |-> record.user_id, created_at |-> record.created_at,
         diff |-> IF Truthy(diff) THEN str(diff) ELSE NULL,
         buyAggregate |-> str(buy_aggregate),
         sellAggregate |-> IF Truthy(sell_aggregate) THEN str(sell_aggregate) ELSE NULL,
         diffDollar |-> str(diff_dollar)]

\* GET /order arrives for an authenticated user with its query parameters;
\* a symbol that was given is upper-cased before the first read.
\* symbols: what the query may carry (NULL: no symbol); raw keeps it as sent.
list_orders_with(p, symbols) ==
    /\ pc[p] = "idle"
    /\ \E u \in DOMAIN balance, a \in BOOLEAN, s \in symbols :
         /\ StartCall(p, u, upper(s))
         /\ req' = [req EXCEPT ![p] = [op |-> "list", user_id |-> u, symbol |-> upper(s),
                                       quantity |-> 0, price |-> 0, active_only |-> a,
                                       raw |-> s]]
    /\ pc' = [pc EXCEPT ![p] = "list_orders_transactions"]
    /\ result' = [result EXCEPT ![p] = [code |-> 0, detail |-> "none"]]
    /\ UNCHANGED <<balance, transact, nextId, user_balance, transaction, txn, hist, now, db>>

list_orders(p) == list_orders_with(p, Symbols \cup {NULL})

\* transactions = await get_user_transactions(user_id, active_only, symbol)
list_orders_transactions(p) ==
    /\ pc[p] = "list_orders_transactions"
    /\ \E transactions \in get_user_transactions(req[p].user_id, req[p].active_only,
                                                 req[p].symbol) :
         transaction' = [transaction EXCEPT ![p] = [id |-> 0, transactions |-> transactions]]
    /\ pc' = [pc EXCEPT ![p] = "list_orders_symbols"]
    /\ UNCHANGED <<balance, transact, nextId, req, user_balance, txn, result, calls,
                   hist, conc, startRows, now, db>>

\* As list_orders_symbols, with the symbols taken from the ACTIVE transactions.
list_orders_symbols_active_only(p) ==
    /\ pc[p] = "list_orders_symbols"
    /\ \E all_transactions \in get_user_transactions(req[p].user_id, TRUE, NULL) :
         result' = [result EXCEPT ![p] =
            [code |-> 200, detail |-> ORDERS_LISTED,
             orders |-> [i \in 1..Len(transaction[p].transactions) |->
                            _serialize_transaction(transaction[p].transactions[i])],
             unique_symbols |-> {all_transactions[i].symbol :
                                    i \in 1..Len(all_transactions)}]]
    /\ pc' = [pc EXCEPT ![p] = "idle"]
    /\ transaction' = [transaction EXCEPT ![p] = NoRow]
    /\ UNCHANGED <<balance, transact, nextId, req, user_balance, txn, calls,
                   hist, conc, startRows, now, db>>

\* all_transactions = await get_user_transactions(user_id); the answer carries
\* the serialized orders and the symbols of all the user's transactions.
list_orders_symbols(p) ==
    /\ pc[p] = "list_orders_symbols"
    /\ \E all_transactions \in get_user_transactions(req[p].user_id, FALSE, NULL) :
         result' = [result EXCEPT ![p] =
            [code |-> 200, detail |-> ORDERS_LISTED,
             orders |-> [i \in 1..Len(transaction[p].transactions) |->
                            _serialize_transaction(transaction[p].transactions[i])],
             unique_symbols |-> {all_transactions[i].symbol :
                                    i \in 1..Len(all_transactions)}]]
    /\ pc' = [pc EXCEPT ![p] = "idle"]
    /\ transaction' = [transaction EXCEPT ![p] = NoRow]
    /\ UNCHANGED <<balance, transact, nextId, req, user_balance, txn, calls,
                   hist, conc, startRows, now, db>>

NextApi ==
    \/ \E u \in NewAccounts : create_user(u)
    \/ \E p \in ApiProcs : post_order(p)
    \/ \E p \in ApiProcs : create_order_payload(p)
    \/ \E p \in ApiProcs : create_order_get_current_price(p, Quotes)
    \/ \E p \in ApiProcs : create_order_check_balance(p)
    \/ \E p \in ApiProcs : create_order_check_duplicate(p)
    \/ \E p \in ApiProcs : create_order_atomic_select(p)
    \/ \E p \in ApiProcs : create_order_atomic_insert(p)
    \/ \E p \in ApiProcs : create_order_atomic_update(p)
    \/ \E p \in ApiProcs : create_order_atomic_commit(p)
    \/ \E p \in ApiProcs : close_order(p)
    \/ \E p \in ApiProcs : close_order_get_current_price(p, Quotes)
    \/ \E p \in ApiProcs : close_order_atomic_select(p)
    \/ \E p \in ApiProcs : close_order_atomic_update(p)
    \/ \E p \in ApiProcs : close_order_atomic_credit(p)
    \/ \E p \in ApiProcs : close_order_atomic_commit(p)
    \/ \E p \in ApiProcs : Rollback(p)
    \/ \E p \in ApiProcs : list_orders(p)
    \/ \E p \in ApiProcs : list_orders_transactions(p)
    \/ \E p \in ApiProcs : list_orders_symbols(p)

SpecApi == InitApi /\ [][NextApi]_vars

\* ---- the letter case of symbols ----
\* One coroutine; bodies and queries carry a symbol in either letter case.
CaseSymbols == {"BTCUSDT", "ETHUSDT", "ethusdt"}
CaseQuantities == {1}
CaseQuotes == {50000}

NextCase ==
    \/ \E p \in ApiProcs : post_order_with(p, CaseSymbols, CaseQuantities)
    \/ \E p \in ApiProcs : create_order_payload(p)
    \/ \E p \in ApiProcs : create_order_get_current_price(p, CaseQuotes)
    \/ \E p \in ApiProcs : create_order_check_balance(p)
    \/ \E p \in ApiProcs : create_order_check_duplicate(p)
    \/ \E p \in ApiProcs : create_order_atomic_select(p)
    \/ \E p \in ApiProcs : create_order_atomic_insert(p)
    \/ \E p \in ApiProcs : create_order_atomic_update(p)
    \/ \E p \in ApiProcs : create_order_atomic_commit(p)
    \/ \E p \in ApiProcs : delete_order(p, CaseSymbols)
    \/ \E p \in ApiProcs : close_order_payload(p)
    \/ \E p \in ApiProcs : close_order_get_current_price(p, CaseQuotes)
    \/ \E p \in ApiProcs : close_order_atomic_select(p)
    \/ \E p \in ApiProcs : close_order_atomic_update(p)
    \/ \E p \in ApiProcs : close_order_atomic_credit(p)
    \/ \E p \in ApiProcs : close_order_atomic_commit(p)
    \/ \E p \in ApiProcs : Rollback(p)
    \/ \E p \in ApiProcs : list_orders_with(p, CaseSymbols \cup {NULL})
    \/ \E p \in ApiProcs : list_orders_transactions(p)
    \/ \E p \in ApiProcs : list_orders_symbols(p)

SpecCase == InitApi /\ [][NextCase]_vars

\* ---- the connection pool ----
\* get_db_pool and close_db_pool as coroutines: each await is a point where
\* another coroutine runs.
MaxPools == 3

Ledger == <<balance, transact, nextId, req, user_balance, transaction, txn, result,
            calls, hist, conc, startRows, now>>

\* get_db_pool up to its await: `if _db_pool is None` starts create_pool,
\* otherwise the pool in _db_pool is returned at once.
get_db_pool(p) ==
    /\ pc[p] = "idle"
    /\ IF _db_pool = NoPool
       THEN /\ Len(pool_state) + Cardinality({q \in Procs : pc[q] = "get_db_pool_create"})
                 < MaxPools
            /\ pc' = [pc EXCEPT ![p] = "get_db_pool_create"]
            /\ pool' = [pool EXCEPT ![p] = NoPool]
       ELSE /\ pool' = [pool EXCEPT ![p] = _db_pool]
            /\ UNCHANGED pc
    /\ UNCHANGED <<_db_pool, pool_state, epoch>>
    /\ UNCHANGED Ledger

\* asyncpg.create_pool returns: `_db_pool = await asyncpg.create_pool(...)`
\* assigns the new pool, whatever _db_pool holds by now, and returns it.
get_db_pool_create(p) ==
    /\ pc[p] = "get_db_pool_create"
    /\ pool_state' = Append(pool_state, "open")
    /\ _db_pool' = Len(pool_state) + 1
    /\ pool' = [pool EXCEPT ![p] = Len(pool_state) + 1]
    /\ epoch' = epoch \cup {Len(pool_state) + 1}
    /\ pc' = [pc EXCEPT ![p] = "idle"]
    /\ UNCHANGED Ledger

\* close_db_pool up to its await: `if _db_pool is not None` starts
\* _db_pool.close(); with no pool the call returns and nothing changes.
close_db_pool(p) ==
    /\ pc[p] = "idle"
    /\ IF _db_pool # NoPool
       THEN /\ pc' = [pc EXCEPT ![p] = "close_db_pool_close"]
            /\ pool' = [pool EXCEPT ![p] = _db_pool]
            /\ UNCHANGED epoch
       ELSE /\ epoch' = {}
            /\ UNCHANGED <<pc, pool>>
    /\ UNCHANGED <<_db_pool, pool_state>>
    /\ UNCHANGED Ledger

\* _db_pool.close() returns: the pool is closed and `_db_pool = None`.
close_db_pool_close(p) ==
    /\ pc[p] = "close_db_pool_close"
    /\ pool_state' = [pool_state EXCEPT ![pool[p]] = "closed"]
    /\ _db_pool' = NoPool
    /\ epoch' = {}
    /\ pc' = [pc EXCEPT ![p] = "idle"]
    /\ UNCHANGED pool
    /\ UNCHANGED Ledger

NextPool ==
    \/ \E p \in Procs : get_db_pool(p)
    \/ \E p \in Procs : get_db_pool_create(p)
    \/ \E p \in Procs : close_db_pool(p)
    \/ \E p \in Procs : close_db_pool_close(p)

SpecPool == Init /\ [][NextPool]_vars

\* ---- the storage functions called on their own ----
\* update_user_balance and get_user_with_balance called directly, as the unit
\* tests call them, next to the opens of the router, for an account whose
\* users row may have been removed.  Balances count units of the balance
\* column (10^-BALANCE_SCALE); the amounts of update_user_balance carry more
\* fractional digits and count units of 10^-AMOUNT_SCALE.
BALANCE_SCALE == 8
AMOUNT_SCALE == 9

RECURSIVE Pow10(_)
Pow10(n) == IF n = 0 THEN 1 ELSE 10 * Pow10(n - 1)

\* Amount units per unit of the balance column.
AmountUnit == Pow10(AMOUNT_SCALE - BALANCE_SCALE)

\* Half a unit of the balance column and one unit.
Amounts == {AmountUnit \div 2, AmountUnit}
StoreSymbols == {"BTCUSDT"}
StoreQuantities == {1}
Operations == {"add", "subtract", "multiply"}
RECORD == "Record"
NONE == "None"
OperationError(operation) ==
    "Operation must be 'add' or 'subtract', got '" \o operation \o "'"

\* The value a NUMERIC(20, 8) column stores for v amount units, in units of
\* the column: PostgreSQL rounds to the scale of the column, ties away from zero.
numeric(v) ==
    IF v >= 0 THEN (2 * v + AmountUnit) \div (2 * AmountUnit)
    ELSE 0 - ((2 * (0 - v) + AmountUnit) \div (2 * AmountUnit))

\* The tests remove a user (after the user's positions) with
\* DELETE FROM users WHERE id = $1; the DELETE waits for a lock on the row.
delete_user(u) ==
    /\ u \in DOMAIN balance
    /\ \A r \in transact : r.user_id # u
    /\ \A p \in Procs : req[p].user_id = u => ~ InTransaction(p) /\ txn[p].user # u
    /\ balance' = [x \in DOMAIN balance \ {u} |-> balance[x]]
    /\ UNCHANGED <<transact, nextId, pc, req, user_balance, transaction, txn, result,
                   calls, hist, conc, startRows, now, db>>

\* update_user_balance(user_id, amount, operation) is called.
update_user_balance(p) ==
    /\ pc[p] = "idle"
    /\ \E u \in Accounts, a \in Amounts, o \in Operations :
         /\ StartCall(p, u, NULL)
         /\ req' = [req EXCEPT ![p] =
               [op |-> "update_user_balance", user_id |-> u, symbol |-> NULL,
                quantity |-> 0, price |-> 0, amount |-> a, operation |-> o]]
    /\ pc' = [pc EXCEPT ![p] = "update_user_balance_operation"]
    /\ result' = [result EXCEPT ![p] = [code |-> 0, detail |-> "none"]]
    /\ UNCHANGED <<balance, transact, nextId, user_balance, transaction, txn, hist, now, db>>

\* As update_user_balance_operation, without the check of the operation: any
\* operation other than "add" takes the else branch of the function.
update_user_balance_operation_unchecked(p) ==
    /\ pc[p] = "update_user_balance_operation"
    /\ pc' = [pc EXCEPT ![p] = "update_user_balance_update"]
    /\ UNCHANGED <<balance, transact, nextId, req, user_balance, transaction, txn, result,
                   calls, hist, conc, startRows, now, db>>

\* if operation not in ("add", "subtract"): raise ValueError(...)
update_user_balance_operation(p) ==
    /\ pc[p] = "update_user_balance_operation"
    /\ IF req[p].operation \notin {"add", "subtract"}
       THEN Respond(p, 0, OperationError(req[p].operation))
       ELSE /\ pc' = [pc EXCEPT ![p] = "update_user_balance_update"]
            /\ UNCHANGED result
    /\ UNCHANGED <<balance, transact, nextId, req, user_balance, transaction, txn, calls,
                   hist, conc, startRows, now, db>>

\* The amount with its sign: added by "add", subtracted by the else branch.
SignedAmount(p) ==
    IF req[p].operation = "add" THEN req[p].amount ELSE 0 - req[p].amount

\* SET balance = balance + $1 (or - $1): the sum is exact, the column stores
\* it at its scale.
NewBalance(p) ==
    numeric(balance[req[p].user_id] * AmountUnit + SignedAmount(p))

\* BEGIN; UPDATE users SET balance = balance + $1 WHERE id = $2 RETURNING ...:
\* the UPDATE waits for the lock on the row and matches no row when the user
\* is gone.
update_user_balance_update(p) ==
    /\ pc[p] = "update_user_balance_update"
    /\ ~ UserLocked(p, req[p].user_id)
    /\ IF req[p].user_id \in DOMAIN balance
       THEN /\ txn' = [txn EXCEPT ![p].user = req[p].user_id,
                                  ![p].delta = NewBalance(p) - balance[req[p].user_id]]
            /\ user_balance' = [user_balance EXCEPT ![p] = NewBalance(p)]
       ELSE UNCHANGED <<txn, user_balance>>
    /\ pc' = [pc EXCEPT ![p] = "update_user_balance_commit"]
    /\ UNCHANGED <<balance, transact, nextId, req, transaction, result, calls,
                   hist, conc, startRows, now, db>>

\* The transaction block ends and fetchrow's record (None when no row was
\* updated) is returned.
update_user_balance_commit(p) ==
    /\ pc[p] = "update_user_balance_commit"
    /\ adjusted' = IF txn[p].user = 0 THEN adjusted
                   ELSE [adjusted EXCEPT ![txn[p].user] = @ + SignedAmount(p)]
    /\ result' = [result EXCEPT ![p] =
          IF txn[p].user = 0 THEN [code |-> 0, detail |-> NONE]
          ELSE [code |-> 0, detail |-> RECORD, balance |-> user_balance[p]]]
    /\ Commit(p)
    /\ pc' = [pc EXCEPT ![p] = "idle"]
    /\ user_balance' = [user_balance EXCEPT ![p] = 0]
    /\ UNCHANGED <<nextId, req, transaction, calls, funded, opened, closed,
                   conc, startRows, now, db>>

\* get_user_with_balance(user_id) is called.
get_user_with_balance(p) ==
    /\ pc[p] = "idle"
    /\ \E u \in Accounts :
         /\ StartCall(p, u, NULL)
         /\ req' = [req EXCEPT ![p] =
               [op |-> "get_user_with_balance", user_id |-> u, symbol |-> NULL,
                quantity |-> 0, price |-> 0]]
    /\ pc' = [pc EXCEPT ![p] = "get_user_with_balance_fetchrow"]
    /\ result' = [result EXCEPT ![p] = [code |-> 0, detail |-> "none"]]
    /\ UNCHANGED <<balance, transact, nextId, user_balance, transaction, txn, hist, now, db>>

\* SELECT id, email, name, balance, ... FROM users WHERE id = $1: fetchrow
\* returns the record, or None when there is no such row.
get_user_with_balance_fetchrow(p) ==
    /\ pc[p] = "get_user_with_balance_fetchrow"
    /\ result' = [result EXCEPT ![p] =
          IF req[p].user_id \in DOMAIN balance
          THEN [code |-> 0, detail |-> RECORD, balance |-> balance[req[p].user_id]]
          ELSE [code |-> 0, detail |-> NONE]]
    /\ pc' = [pc EXCEPT ![p] = "idle"]
    /\ UNCHANGED <<balance, transact, nextId, req, user_balance, transaction, txn,
                   calls, hist, conc, startRows, now, db>>

NextStore ==
    \/ \E u \in Accounts : delete_user(u)
    \/ \E p \in Procs : create_order_for(p, Accounts, StoreSymbols, StoreQuantities)
    \/ \E p \in Procs : create_order_price(p)
    \/ \E p \in Procs : create_order_check_balance(p)
    \/ \E p \in Procs : create_order_check_duplicate(p)
    \/ \E p \in Procs : create_order_atomic_select(p)
    \/ \E p \in Procs : create_order_atomic_insert(p)
    \/ \E p \in Procs : create_order_atomic_update(p)
    \/ \E p \in Procs : create_order_atomic_commit(p)
    \/ \E p \in Procs : Rollback(p)
    \/ \E p \in Procs : update_user_balance(p)
    \/ \E p \in Procs : update_user_balance_operation(p)
    \/ \E p \in Procs : update_user_balance_update(p)
    \/ \E p \in Procs : update_user_balance_commit(p)
    \/ \E p \in Procs : get_user_with_balance(p)
    \/ \E p \in Procs : get_user_with_balance_fetchrow(p)

SpecStore == Init /\ [][NextStore]_vars

\* ---- two accounts served concurrently ----
\* The order router with two registered accounts and one symbol.
TwoAccounts == {1, 2}

InitAccounts ==
    /\ \E b \in InitialBalances :
         /\ balance = [u \in TwoAccounts |-> b]
         /\ funded = [u \in TwoAccounts |-> b]
    /\ transact = {}
    /\ nextId = 1
    /\ pc = [p \in Procs |-> "idle"]
    /\ req = [p \in Procs |-> NoReq]
    /\ user_balance = [p \in Procs |-> 0]
    /\ transaction = [p \in Procs |-> NoRow]
    /\ txn = [p \in Procs |-> NoTxn]
    /\ result = [p \in Procs |-> [code |-> 0, detail |-> "none"]]
    /\ calls = 0
    /\ opened = [u \in TwoAccounts |-> 0]
    /\ closed = [u \in TwoAccounts |-> 0]
    /\ debited = {}
    /\ credited = {}
    /\ adjusted = [u \in TwoAccounts |-> 0]
    /\ conc = [p \in Procs |-> {}]
    /\ startRows = [p \in Procs |-> {}]
    /\ now = 0
    /\ lifespan

NextAccounts ==
    \/ \E p \in Procs : create_order_for(p, DOMAIN balance, StoreSymbols, StoreQuantities)
    \/ \E p \in Procs : create_order_price(p)
    \/ \E p \in Procs : create_order_check_balance(p)
    \/ \E p \in Procs : create_order_check_duplicate(p)
    \/ \E p \in Procs : create_order_atomic_select(p)
    \/ \E p \in Procs : create_order_atomic_insert(p)
    \/ \E p \in Procs : create_order_atomic_update(p)
    \/ \E p \in Procs : create_order_atomic_commit(p)
    \/ \E p \in Procs : close_order_for(p, StoreSymbols)
    \/ \E p \in Procs : close_order_price(p)
    \/ \E p \in Procs : close_order_atomic_select(p)
    \/ \E p \in Procs : close_order_atomic_update(p)
    \/ \E p \in Procs : close_order_atomic_credit(p)
    \/ \E p \in Procs : close_order_atomic_commit(p)
    \/ \E p \in Procs : Rollback(p)

SpecAccounts == InitAccounts /\ [][NextAccounts]_vars

\* ---- progress of the calls ----
\* Two accounts, one symbol and an oracle with a single price.
LiveQuotes == {1}

NextLive ==
    \/ \E p \in Procs : create_order_for(p, DOMAIN balance, StoreSymbols, StoreQuantities)
    \/ \E p \in Procs : create_order_get_current_price(p, LiveQuotes)
    \/ \E p \in Procs : create_order_check_balance(p)
    \/ \E p \in Procs : create_order_check_duplicate(p)
    \/ \E p \in Procs : create_order_atomic_select(p)
    \/ \E p \in Procs : create_order_atomic_insert(p)
    \/ \E p \in Procs : create_order_atomic_update(p)
    \/ \E p \in Procs : create_order_atomic_commit(p)
    \/ \E p \in Procs : close_order_for(p, StoreSymbols)
    \/ \E p \in Procs : close_order_get_current_price(p, LiveQuotes)
    \/ \E p \in Procs : close_order_atomic_select(p)
    \/ \E p \in Procs : close_order_atomic_update(p)
    \/ \E p \in Procs : close_order_atomic_credit(p)
    \/ \E p \in Procs : close_order_atomic_commit(p)
    \/ \E p \in Procs : Rollback(p)

\* The next step of the call coroutine p is serving.  The event loop runs
\* every coroutine that is ready, get_current_price returns or raises within
\* its timeout, and PostgreSQL grants a released row lock to a waiter; an
\* exception inside the transaction (Rollback) may happen but need not.
Continue(p) ==
    \/ create_order_get_current_price(p, LiveQuotes)
    \/ create_order_check_balance(p)
    \/ create_order_check_duplicate(p)
    \/ create_order_atomic_select(p)
    \/ create_order_atomic_insert(p)
    \/ create_order_atomic_update(p)
    \/ create_order_atomic_commit(p)
    \/ close_order_get_current_price(p, LiveQuotes)
    \/ close_order_atomic_select(p)
    \/ close_order_atomic_update(p)
    \/ close_order_atomic_credit(p)
    \/ close_order_atomic_commit(p)

SpecLive ==
    /\ InitAccounts
    /\ [][NextLive]_vars
    /\ \A p \in Procs : WF_vars(Continue(p))

\* ---- listings next to opens and closes ----
\* Two coroutines; a listing's two reads are separate steps, so opens and
\* closes of the other coroutine commit before, between and after them.
NextList ==
    \/ \E p \in Procs : create_order_for(p, DOMAIN balance, Symbols, StoreQuantities)
    \/ \E p \in Procs : create_order_get_current_price(p, LiveQuotes)
    \/ \E p \in Procs : create_order_check_balance(p)
    \/ \E p \in Procs : create_order_check_duplicate(p)
    \/ \E p \in Procs : create_order_atomic_select(p)
    \/ \E p \in Procs : create_order_atomic_insert(p)
    \/ \E p \in Procs : create_order_atomic_update(p)
    \/ \E p \in Procs : create_order_atomic_commit(p)
    \/ \E p \in Procs : close_order_for(p, Symbols)
    \/ \E p \in Procs : close_order_get_current_price(p, LiveQuotes)
    \/ \E p \in Procs : close_order_atomic_select(p)
    \/ \E p \in Procs : close_order_atomic_update(p)
    \/ \E p \in Procs : close_order_atomic_credit(p)
    \/ \E p \in Procs : close_order_atomic_commit(p)
    \/ \E p \in Procs : Rollback(p)
    \/ \E p \in Procs : list_orders(p)
    \/ \E p \in Procs : list_orders_transactions(p)
    \/ \E p \in Procs : list_orders_symbols(p)

SpecList == Init /\ [][NextList]_vars

\* ---- what the claims speak about ----
\* The answers of the routers to a failure of the oracle, and their messages.
OracleResponses == {OracleResponse(e) : e \in OracleFailures}
OracleMessages == {r.detail : r \in OracleResponses}

RECURSIVE SumAmounts(_)
SumAmounts(S) ==
    IF S = {} THEN 0
    ELSE LET x == CHOOSE y \in S : TRUE IN x.amount + SumAmounts(S \ {x})

\* The last call of p has been answered.
Done(p) == pc[p] = "idle" /\ result[p].code # 0

Succeeded(p) == Done(p) /\ result[p].code \in {200, 201}

\* The price fetch of the last call of p succeeded.
Quoted(p) == req[p].price # 0

\* The last calls of p and q overlapped in time.
Concurrent(p, q) == p # q /\ q \in conc[p] /\ p \in conc[q]

\* No other call was in flight during the last call of p.
Sequential(p) == conc[p] = {}

StartActive(p) == {x \in startRows[p] : x.status = STATUS_ACTIVE}

StartClosed(p) == {x \in startRows[p] : x.status = STATUS_CLOSED}

\* C1: in every reachable state every account's balance is >= 0.
C1_BalanceNonNegative == \A u \in DOMAIN balance : balance[u] >= 0

\* C2: in every reachable state each (account, symbol) pair has at most one
\* position with status ACTIVE.
C2_OneActivePerSymbol ==
    \A u \in DOMAIN balance, s \in Symbols : Cardinality(ActiveRows(u, s)) <= 1

\* C3: open is all-or-nothing.  In every committed state a position row exists
\* if and only if the debit of buy_price * quantity for it has been applied to
\* its owner's balance, whatever calls were abandoned or ran concurrently.
C3_OpenAllOrNothing ==
    /\ \A r \in transact :
         [id |-> r.id, user_id |-> r.user_id, amount |-> r.buy_price * r.quantity] \in debited
    /\ \A d \in debited : \E r \in transact : r.id = d.id
    /\ \A u \in DOMAIN balance :
         balance[u] = funded[u] - SumAmounts({d \in debited : d.user_id = u})
                                + SumAmounts({c \in credited : c.user_id = u})

\* An open has committed (row and debit) and another open was abandoned after its INSERT.
C3_Witness ==
    /\ \E r \in transact : \E d \in debited : d.id = r.id
    /\ \E p \in Procs : Done(p) /\ req[p].op = "open" /\ result[p].detail = STORAGE_ERROR
    /\ nextId - 1 > Cardinality(transact)

\* C4: close is all-or-nothing.  In every committed state a position is CLOSED
\* if and only if a credit for it has been applied to its owner's balance, and
\* the credit of sell_price * quantity is among the credits applied.
C4_CloseAllOrNothing ==
    /\ \A r \in transact :
         r.status = STATUS_CLOSED <=> \E c \in credited : c.id = r.id
    /\ \A r \in transact :
         r.status = STATUS_CLOSED =>
            \E c \in credited : /\ c.id = r.id
                                /\ c.user_id = r.user_id
                                /\ c.amount = r.sell_price * r.quantity
    /\ \A c \in credited : \E r \in transact : r.id = c.id

\* A close has committed and another close was abandoned inside its transaction.
C4_Witness ==
    /\ \E r \in transact : r.status = STATUS_CLOSED
    /\ \E p \in Procs : Done(p) /\ req[p].op = "close" /\ result[p].detail = STORAGE_ERROR

Cost(p) == req[p].price * req[p].quantity

\* C6: two concurrent opens for one account and different symbols, each
\* affordable from the balance alone but not both together, end with exactly
\* one success and one "insufficient balance".
C6_ConcurrentOpensSerialize ==
    \A p, q \in Procs :
        ( /\ Concurrent(p, q)
          /\ Done(p) /\ Done(q)
          /\ req[p].op = "open" /\ req[q].op = "open"
          /\ req[p].user_id = req[q].user_id
          /\ req[p].symbol # req[q].symbol
          /\ Quoted(p) /\ Quoted(q)
          /\ result[p].detail # STORAGE_ERROR /\ result[q].detail # STORAGE_ERROR
          /\ closed[req[p].user_id] = 0
          /\ opened[req[p].user_id] = (IF Succeeded(p) THEN Cost(p) ELSE 0)
                                      + (IF Succeeded(q) THEN Cost(q) ELSE 0)
          /\ Cost(p) <= funded[req[p].user_id]
          /\ Cost(q) <= funded[req[p].user_id]
          /\ Cost(p) + Cost(q) > funded[req[p].user_id] )
        => \/ Succeeded(p) /\ result[q].detail = ERROR_INSUFFICIENT_BALANCE
           \/ Succeeded(q) /\ result[p].detail = ERROR_INSUFFICIENT_BALANCE

\* C7: two concurrent closes of one (account, symbol) with one ACTIVE position
\* credit the balance once: one call succeeds, the other answers "order not
\* found", and the position's sell_price is the price of the successful call.
C7_ConcurrentClosesCreditOnce ==
    \A p, q \in Procs :
        ( /\ Concurrent(p, q)
          /\ Done(p) /\ Done(q)
          /\ req[p].op = "close" /\ req[q].op = "close"
          /\ req[p].user_id = req[q].user_id
          /\ req[p].symbol = req[q].symbol
          /\ Quoted(p) /\ Quoted(q)
          /\ result[p].detail # STORAGE_ERROR /\ result[q].detail # STORAGE_ERROR
          /\ Cardinality(StartActive(p)) = 1
          /\ StartActive(p) = StartActive(q) )
        => \E w \in {p, q} : \E l \in {p, q} \ {w} :
              /\ Succeeded(w)
              /\ result[l].detail = ERROR_ORDER_NOT_FOUND
              /\ \A x \in StartActive(p) :
                   /\ Cardinality({c \in credited : c.id = x.id}) = 1
                   /\ \E r \in transact : /\ r.id = x.id
                                          /\ r.status = STATUS_CLOSED
                                          /\ r.sell_price = req[w].price

\* C8 as claimed: when an ACTIVE position exists for (account, symbol), a
\* sequential open for the same account and symbol (its price fetch succeeding)
\* answers with the duplicate-position error.
C8_NoDoubleOpen_AsClaimed ==
    \A p \in Procs :
        ( /\ Done(p) /\ req[p].op = "open"
          /\ Sequential(p) /\ Quoted(p)
          /\ StartActive(p) # {} )
        => result[p].detail = ERROR_DUPLICATE_ORDER

\* C8 as amended: when an ACTIVE position exists for (account, symbol), a
\* sequential open for the same account and symbol fails, inserts no position
\* and leaves the balance unchanged; once the price is fetched it answers
\* "insufficient balance" when the balance is below price * quantity and the
\* duplicate-position error otherwise, and a failed fetch answers the oracle's error.
C8_NoDoubleOpen ==
    [][ \A p \in Procs :
          ( /\ pc[p] # "idle" /\ pc'[p] = "idle"
            /\ req[p].op = "open"
            /\ Sequential(p)
            /\ StartActive(p) # {} )
          => /\ result'[p].code \in {400, 500, 503}
             /\ IF pc[p] = "create_order_price"
                THEN result'[p] \in OracleResponses
                ELSE result'[p].detail =
                        (IF balance[req[p].user_id] < Cost(p)
                            THEN ERROR_INSUFFICIENT_BALANCE
                            ELSE ERROR_DUPLICATE_ORDER)
             /\ transact' = transact
             /\ balance' = balance
      ]_vars

\* A sequential open met an ACTIVE position of its symbol and answered "rejection".
C8_Witness ==
    \E p \in Procs :
        /\ Done(p) /\ req[p].op = "open"
        /\ Sequential(p) /\ Quoted(p)
        /\ StartActive(p) # {}
        /\ result[p].detail = ERROR_DUPLICATE_ORDER

\* C9: after a successful close of (account, symbol), a sequential second close
\* with no open in between answers "order not found".
C9_NoDoubleClose ==
    \A p \in Procs :
        ( /\ Done(p) /\ req[p].op = "close"
          /\ Sequential(p)
          /\ StartActive(p) = {}
          /\ StartClosed(p) # {} )
        => result[p].detail = ERROR_ORDER_NOT_FOUND

\* C10: a position is created ACTIVE with sell_price absent, is never deleted,
\* and once CLOSED none of its fields changes again.
C10_PositionLifecycle ==
    [][ /\ \A r \in transact :
             \E r2 \in transact' : /\ r2.id = r.id
                                   /\ r.status = STATUS_CLOSED => r2 = r
        /\ \A r2 \in transact' :
             (\A r \in transact : r.id # r2.id)
                => r2.status = STATUS_ACTIVE /\ r2.sell_price = NULL
      ]_vars

\* C11: when the price oracle fails during an open, the call answers with the
\* oracle's error (503 connection failed, 500 invalid response); the fetch is
\* the first step of the call after its arrival, no write of the call is
\* pending or applied, and neither step of the call changes a balance or the
\* set of positions.
C11_OpenOracleFailure ==
    [][ \A p \in Procs :
          /\ (pc[p] = "idle" /\ pc'[p] = "create_order_price")
                => /\ balance' = balance /\ transact' = transact /\ nextId' = nextId
                   /\ txn'[p] = NoTxn
          /\ (pc[p] = "create_order_price" /\ pc'[p] = "idle")
                => /\ result'[p] \in OracleResponses
                   /\ txn[p] = NoTxn /\ txn' = txn
                   /\ balance' = balance /\ transact' = transact /\ nextId' = nextId
                   /\ hist' = hist
      ]_vars

\* An open has failed on the oracle while the account held a position and had
\* spent part of its balance.
C11_Witness ==
    \E p \in Procs :
        /\ Done(p) /\ req[p].op = "open"
        /\ result[p].detail \in OracleMessages
        /\ \E r \in transact : r.user_id = req[p].user_id
        /\ balance[req[p].user_id] # funded[req[p].user_id]

\* C12: when the price oracle fails during the close of an ACTIVE position, the
\* call answers with the oracle's error and changes neither the positions nor
\* a balance; with no other call in flight the position that was ACTIVE when
\* the call arrived is still ACTIVE, with sell_price absent, when it answers.
C12_CloseOracleFailure ==
    [][ \A p \in Procs :
          ( /\ pc[p] = "close_order_price" /\ pc'[p] = "idle"
            /\ ActiveRows(req[p].user_id, req[p].symbol) # {} )
          => /\ result'[p] \in OracleResponses
             /\ txn[p] = NoTxn /\ txn' = txn
             /\ balance' = balance /\ transact' = transact
             /\ hist' = hist
             /\ Sequential(p) =>
                  \A x \in StartActive(p) :
                     \E r \in transact' : /\ r.id = x.id
                                           /\ r.status = STATUS_ACTIVE
                                           /\ r.sell_price = NULL
      ]_vars

\* A close of an ACTIVE position, alone in flight, has failed on the oracle.
C12_Witness ==
    \E p \in Procs :
        /\ Done(p) /\ req[p].op = "close"
        /\ result[p].detail \in OracleMessages
        /\ Sequential(p)
        /\ StartActive(p) # {}
        /\ \A x \in StartActive(p) :
              \E r \in transact : r.id = x.id /\ r.status = STATUS_ACTIVE

\* C13: an open answers "insufficient balance" exactly at one of its two reads
\* of the balance (the router's and create_order_atomic's), and there exactly
\* when the balance read is strictly less than price * quantity; that answer
\* inserts no position and changes no balance.  A balance equal to the cost is
\* accepted, and with no other call in flight the open leaves the balance 0.
C13_InsufficientBalance ==
    [][ \A p \in Procs :
          /\ (pc[p] \in {"create_order_balance", "atomic_select"} /\ pc'[p] # pc[p])
                => ( (pc'[p] = "idle" /\
                      result'[p] = [code |-> 400, detail |-> ERROR_INSUFFICIENT_BALANCE])
                     <=> balance[req[p].user_id] < req[p].price * req[p].quantity )
          /\ (pc[p] # "idle" /\ pc'[p] = "idle" /\
               result'[p].detail = ERROR_INSUFFICIENT_BALANCE)
                => /\ pc[p] \in {"create_order_balance", "atomic_select"}
                   /\ txn[p] = NoTxn /\ txn' = txn
                   /\ transact' = transact /\ balance' = balance /\ nextId' = nextId
                   /\ hist' = hist
          /\ (pc[p] = "atomic_commit" /\ pc'[p] = "idle" /\ result'[p].code = 201 /\
               Sequential(p) /\ user_balance[p] = req[p].price * req[p].quantity)
                => /\ balance'[req[p].user_id] = 0
                   /\ \E r \in transact' \ transact : r.user_id = req[p].user_id
      ]_vars

\* An open whose cost equalled the balance has succeeded and left the balance
\* 0, and another open has then answered "insufficient balance".
C13_Witness ==
    \E p, q \in Procs :
        /\ Succeeded(p) /\ req[p].op = "open" /\ Sequential(p)
        /\ Cost(p) = funded[req[p].user_id]
        /\ opened[req[p].user_id] = Cost(p) /\ closed[req[p].user_id] = 0
        /\ balance[req[p].user_id] = 0
        /\ Done(q) /\ req[q].op = "open" /\ req[q].user_id = req[p].user_id
        /\ result[q].detail = ERROR_INSUFFICIENT_BALANCE

\* C14: an open whose quantity is zero or negative, or whose symbol is empty,
\* is answered 422 by the validation of the body, the first step after its
\* arrival: no price has been fetched, no write is pending or applied, and
\* neither step of the call changes a balance or the positions.
C14_InvalidArgument ==
    [][ \A p \in Procs :
          /\ (pc[p] = "idle" /\ pc'[p] = "OrderCreate")
                => /\ balance' = balance /\ transact' = transact /\ nextId' = nextId
                   /\ txn'[p] = NoTxn /\ req'[p].price = 0
          /\ (pc[p] = "OrderCreate" /\ pc'[p] # pc[p] /\
               (req[p].quantity <= 0 \/ req[p].symbol = ""))
                => /\ pc'[p] = "idle"
                   /\ result'[p] = [code |-> 422, detail |-> VALIDATION_ERROR]
                   /\ req'[p].price = 0
                   /\ txn[p] = NoTxn /\ txn' = txn
                   /\ balance' = balance /\ transact' = transact /\ nextId' = nextId
                   /\ hist' = hist
      ]_vars

\* An open with quantity zero and a proper symbol has been rejected while the
\* account held a position.
C14_Witness ==
    \E p \in Procs :
        /\ pc[p] = "idle" /\ req[p].op = "open"
        /\ result[p] = [code |-> 422, detail |-> VALIDATION_ERROR]
        /\ req[p].quantity = 0 /\ req[p].symbol # ""
        /\ \E r \in transact : r.user_id = req[p].user_id

\* C15: every position has buy_price > 0 and quantity > 0, and no step changes
\* the buy_price, quantity, symbol or owner of a position.
C15_PositivePriceAndQuantity ==
    [][ /\ \A r \in transact' : r.buy_price > 0 /\ r.quantity > 0
        /\ \A r \in transact :
             \E r2 \in transact' : /\ r2.id = r.id
                                   /\ r2.buy_price = r.buy_price
                                   /\ r2.quantity = r.quantity
                                   /\ r2.symbol = r.symbol
                                   /\ r2.user_id = r.user_id
      ]_vars

\* C16: an account comes into being by registration only, with balance exactly
\* 0 and without a position.
C16_AccountCreation ==
    [][ \A u \in DOMAIN balance' :
          u \notin DOMAIN balance
            => /\ balance'[u] = 0
               /\ \A r \in transact' : r.user_id # u
               /\ \A v \in DOMAIN balance : balance'[v] = balance[v]
               /\ transact' = transact
      ]_vars

\* Account 2 has registered after account 1 opened a position; it has balance
\* 0 and no position.
C16_Witness ==
    /\ \E u \in NewAccounts :
          /\ u \in DOMAIN balance
          /\ balance[u] = 0 /\ opened[u] = 0
          /\ \A r \in transact : r.user_id # u
    /\ transact # {}
    /\ calls = 1

\* C17: a step changes an account's balance or the positions only if it is the
\* commit of an open that answers 201 (one new position, its owner debited by
\* price * quantity) or the commit of a close that answers 200 (its owner
\* credited by price * quantity); the listing, the lookups of the balance and
\* of the ACTIVE position, and every step of a call that fails change nothing.
C17_BalanceFrame ==
    [][ /\ ( (\E u \in DOMAIN balance : balance'[u] # balance[u]) \/ transact' # transact )
            => \E p \in Procs :
                 \/ /\ pc[p] = "atomic_commit" /\ pc'[p] = "idle"
                    /\ result'[p] = [code |-> 201, detail |-> ORDER_CREATED]
                    /\ balance' = [balance EXCEPT ![req[p].user_id] =
                                      @ - req[p].price * req[p].quantity]
                    /\ transact' = transact \cup {transaction[p]}
                 \/ /\ pc[p] = "close_commit" /\ pc'[p] = "idle"
                    /\ result'[p] = [code |-> 200, detail |-> SUCCESS_ORDER_CLOSED]
                    /\ balance' = [balance EXCEPT ![req[p].user_id] =
                                      @ + req[p].price * transaction[p].quantity]
                    /\ {r.id : r \in transact'} = {r.id : r \in transact}
        /\ \A p \in Procs :
             ( /\ pc'[p] # pc[p]
               /\ \/ req'[p].op = "list"
                  \/ pc[p] \in {"create_order_balance", "create_order_duplicate"}
                  \/ pc'[p] = "idle" /\ result'[p].code \notin {200, 201} )
             => /\ \A u \in DOMAIN balance : balance'[u] = balance[u]
                /\ transact' = transact
      ]_vars

\* After a successful open and a successful close that moved the balance, a
\* listing has been answered.
C17_Witness ==
    \E p \in Procs :
        /\ Done(p) /\ req[p].op = "list"
        /\ result[p].detail = ORDERS_LISTED
        /\ opened[req[p].user_id] > 0 /\ closed[req[p].user_id] > 0
        /\ balance[req[p].user_id] # funded[req[p].user_id]

\* C18: the scenario, one call at a time, with quantities in hundredths of a
\* unit and balances in hundredths of a dollar.  From balance 1000.00 at price
\* 50000 an open of 0.10 answers "insufficient balance" and changes nothing; an
\* open of 0.01 passes both balance checks and commits with balance 500.00 and
\* an ACTIVE position (buy_price 50000, quantity 0.01, no sell_price); closing
\* that position at 51000 from balance 500.00 credits 510.00, leaves balance
\* 1010.00 and the position CLOSED with sell_price 51000, answered with diff
\* 1000 and equity 10.00.  (A call abandoned on a storage error is no part of
\* the scenario.)
C18_Scenario ==
    [][ \A p \in ApiProcs :
          LET u == req[p].user_id IN
          /\ ( /\ pc[p] \in {"create_order_balance", "atomic_select"} /\ pc'[p] # pc[p]
               /\ balance[u] = 100000 /\ req[p].price = 50000 )
             => /\ req[p].quantity = 10
                    => /\ pc[p] = "create_order_balance" /\ pc'[p] = "idle"
                       /\ result'[p] = [code |-> 400, detail |-> ERROR_INSUFFICIENT_BALANCE]
                       /\ balance' = balance /\ transact' = transact
                /\ req[p].quantity = 1 => pc'[p] \notin {"idle", pc[p]}
          /\ ( /\ pc[p] = "atomic_commit" /\ pc'[p] # pc[p]
               /\ result'[p].detail # STORAGE_ERROR
               /\ balance[u] = 100000 /\ req[p].price = 50000 /\ req[p].quantity = 1 )
             => /\ result'[p] = [code |-> 201, detail |-> ORDER_CREATED]
                /\ balance'[u] = 50000
                /\ \E r \in transact' \ transact :
                      /\ transact' = transact \cup {r}
                      /\ r.user_id = u /\ r.symbol = req[p].symbol
                      /\ r.status = STATUS_ACTIVE
                      /\ r.buy_price = 50000 /\ r.quantity = 1
                      /\ r.sell_price = NULL
          /\ ( /\ pc[p] = "close_commit" /\ pc'[p] # pc[p]
               /\ result'[p].detail # STORAGE_ERROR
               /\ balance[u] = 50000 /\ req[p].price = 51000
               /\ transaction[p].buy_price = 50000 /\ transaction[p].quantity = 1 )
             => /\ result'[p] = [code |-> 200, detail |-> SUCCESS_ORDER_CLOSED]
                /\ balance'[u] = 101000
                /\ \E r \in transact' :
                      /\ r.id = transaction[p].id
                      /\ r.status = STATUS_CLOSED
                      /\ r.sell_price = 51000
                      /\ r.buy_price = 50000 /\ r.quantity = 1
                      /\ _serialize_transaction(r).diff = str(1000)
                      /\ _serialize_transaction(r).diffDollar = str(1000)
                      /\ _serialize_transaction(r).sellAggregate = str(51000)
      ]_vars

\* The scenario has run to its end: three calls, one position, opened at
\* 50000 and closed at 51000, balance 1010.00.
C18_Witness ==
    /\ calls = 3 /\ nextId = 2
    /\ balance[1] = 101000
    /\ opened[1] = 50000 /\ closed[1] = 51000
    /\ \E r \in transact :
          /\ r.status = STATUS_CLOSED
          /\ r.buy_price = 50000 /\ r.quantity = 1 /\ r.sell_price = 51000

\* The rows of transact that the listing req[p] asks for.
Listed(p) ==
    {r \in transact : /\ r.user_id = req[p].user_id
                      /\ req[p].active_only => r.status = STATUS_ACTIVE
                      /\ req[p].symbol # NULL => r.symbol = req[p].symbol}

\* C19: a listing answers with exactly the positions of the account that the
\* filters select, every ACTIVE position before every CLOSED one and, within
\* each status, in order of decreasing created_at.
C19_ListingOrder ==
    \A p \in Procs :
        (Done(p) /\ req[p].op = "list")
        => LET orders == result[p].orders IN
           /\ Len(orders) = Cardinality(Listed(p))
           /\ {orders[i].id : i \in 1..Len(orders)} = {r.id : r \in Listed(p)}
           /\ \A i, j \in 1..Len(orders) :
                i < j => /\ orders[i].status = STATUS_CLOSED
                               => orders[j].status = STATUS_CLOSED
                         /\ orders[i].status = orders[j].status
                               => orders[i].created_at >= orders[j].created_at

\* A listing has answered with two positions of one status created at
\* different times, the newer one first.
C19_Witness ==
    \E p \in Procs :
        /\ Done(p) /\ req[p].op = "list"
        /\ Len(result[p].orders) = 2
        /\ result[p].orders[1].status = result[p].orders[2].status
        /\ result[p].orders[1].created_at > result[p].orders[2].created_at

\* C20: for every CLOSED position a listing reports diff = sell_price -
\* buy_price, sellAggregate = sell_price * quantity, buyAggregate = buy_price *
\* quantity and equity (diffDollar) = diff * quantity, none of them absent,
\* whatever buy_price, sell_price and quantity are.
C20_ClosedComputedFields ==
    \A p \in Procs :
        (Done(p) /\ req[p].op = "list")
        => \A i \in 1..Len(result[p].orders) :
             LET o == result[p].orders[i] IN
             o.status = STATUS_CLOSED
               => \E r \in transact :
                    /\ r.id = o.id
                    /\ o.diff = str(r.sell_price - r.buy_price)
                    /\ o.sellAggregate = str(r.sell_price * r.quantity)
                    /\ o.buyAggregate = str(r.buy_price * r.quantity)
                    /\ o.diffDollar = str((r.sell_price - r.buy_price) * r.quantity)

\* C21: for every ACTIVE position a listing reports diff absent, sellAggregate
\* absent, equity (diffDollar) 0 and buyAggregate = buy_price * quantity; and
\* diff and sellAggregate are absent only for positions that are not CLOSED.
C21_ActiveComputedFields ==
    \A p \in Procs :
        (Done(p) /\ req[p].op = "list")
        => \A i \in 1..Len(result[p].orders) :
             LET o == result[p].orders[i] IN
             /\ o.status = STATUS_ACTIVE
                  => /\ o.diff = NULL
                     /\ o.sellAggregate = NULL
                     /\ o.diffDollar = str(0)
                     /\ \E r \in transact : /\ r.id = o.id
                                            /\ o.buyAggregate = str(r.buy_price * r.quantity)
             /\ (o.diff = NULL \/ o.sellAggregate = NULL) => o.status # STATUS_CLOSED

\* C22: a listing for an account returns exactly the positions that account
\* owns and the filters select: all of them without a filter, its ACTIVE ones
\* with active-only, those of the symbol with a symbol, the ACTIVE ones of the
\* symbol with both; it never returns a position of another account.
C22_ListingFilters ==
    \A p \in Procs :
        (Done(p) /\ req[p].op = "list")
        => LET ids == {result[p].orders[i].id : i \in 1..Len(result[p].orders)}
               own == {r \in transact : r.user_id = req[p].user_id}
               active == {r \in own : r.status = STATUS_ACTIVE}
               of_symbol == {r \in own : r.symbol = req[p].symbol}
           IN  /\ \A i \in 1..Len(result[p].orders) :
                    /\ result[p].orders[i].user_id = req[p].user_id
                    /\ \A j \in 1..Len(result[p].orders) :
                         i # j => result[p].orders[i].id # result[p].orders[j].id
               /\ (~ req[p].active_only /\ req[p].symbol = NULL)
                    => ids = {r.id : r \in own}
               /\ (req[p].active_only /\ req[p].symbol = NULL)
                    => ids = {r.id : r \in active}
               /\ (~ req[p].active_only /\ req[p].symbol # NULL)
                    => ids = {r.id : r \in of_symbol}
               /\ (req[p].active_only /\ req[p].symbol # NULL)
                    => ids = {r.id : r \in active \cap of_symbol}

\* A listing filtered by symbol has returned a position of its account while
\* another account holds a position of the same symbol.
C22_Witness ==
    \E p \in Procs :
        /\ Done(p) /\ req[p].op = "list"
        /\ req[p].symbol # NULL
        /\ Len(result[p].orders) = 1
        /\ \E r \in transact : r.user_id # req[p].user_id /\ r.symbol = req[p].symbol

Rank(at) ==
    CASE at = "create_order_price" -> 1
      [] at = "create_order_balance" -> 2
      [] at = "create_order_duplicate" -> 3
      [] at = "atomic_select" -> 4
      [] at = "atomic_insert" -> 5
      [] at = "atomic_update" -> 6
      [] at = "atomic_commit" -> 7
      [] at = "close_order_price" -> 1
      [] at = "close_select" -> 2
      [] at = "close_update" -> 3
      [] at = "close_credit" -> 4
      [] at = "close_commit" -> 5
      [] OTHER -> 0

\* C24: a failure of the oracle or of the store inside an open or a close ends
\* the call with an error answer.  A call only moves forward through its
\* handler, so it asks for one quote and enters one transaction (no retry); a
\* failed quote answers 503 or 500 at once; a call abandoned inside its
\* transaction answers 500 with none of its writes committed; and success is
\* answered only by the commit of the transaction, after a quote was received.
C24_FailuresTerminal ==
    [][ \A p \in Procs :
          pc'[p] # pc[p]
          => /\ pc[p] # "idle" => (pc'[p] = "idle" \/ Rank(pc'[p]) = Rank(pc[p]) + 1)
             /\ pc[p] = "idle" => Rank(pc'[p]) = 1
             /\ (pc[p] \in {"create_order_price", "close_order_price"} /\ req'[p].price = 0)
                  => /\ pc'[p] = "idle"
                     /\ result'[p] \in OracleResponses
             /\ (InTransaction(p) /\ pc'[p] = "idle" /\
                  pc[p] \notin {"atomic_commit", "close_commit"})
                  => /\ result'[p] = [code |-> 500, detail |-> STORAGE_ERROR]
                     /\ txn'[p] = NoTxn
                     /\ balance' = balance /\ transact' = transact
             /\ (pc'[p] = "idle" /\ result'[p].code \in {200, 201})
                  => /\ pc[p] \in {"atomic_commit", "close_commit"}
                     /\ req[p].price # 0
                     /\ txn[p].user = req[p].user_id
             /\ (pc'[p] = "idle" /\ result'[p].detail = STORAGE_ERROR)
                  => balance' = balance /\ transact' = transact
      ]_vars

\* An open was abandoned inside its transaction and another call failed on the
\* oracle; the account still has its whole balance and no position.
C24_Witness ==
    \E p, q \in Procs :
        /\ Done(p) /\ req[p].op = "open" /\ result[p].detail = STORAGE_ERROR
        /\ Done(q) /\ result[q].detail \in OracleMessages
        /\ transact = {}
        /\ balance[req[p].user_id] = funded[req[p].user_id]

\* C25: an open for an account whose users row does not exist ends with a
\* not-found error at the lookup that misses the row (404 "User not found" in
\* the router, the ValueError of create_order_atomic answered with 400) and
\* writes neither a position nor a balance; get_user_with_balance returns None
\* for an absent account and the record with the stored balance otherwise.
C25_AbsentAccount ==
    [][\A p \in Procs :
         /\ ( /\ pc[p] = "create_order_balance" /\ pc'[p] # pc[p]
              /\ req[p].user_id \notin DOMAIN balance )
            => /\ pc'[p] = "idle"
               /\ result'[p] = [code |-> 404, detail |-> USER_NOT_FOUND]
               /\ transact' = transact /\ balance' = balance /\ txn' = txn
         /\ ( /\ pc[p] = "atomic_select" /\ pc'[p] # pc[p]
              /\ req[p].user_id \notin DOMAIN balance )
            => /\ pc'[p] = "idle"
               /\ result'[p] = [code |-> 400, detail |-> UserNotFound(req[p].user_id)]
               /\ transact' = transact /\ balance' = balance /\ txn' = txn
         /\ ( pc[p] = "get_user_with_balance_fetchrow" /\ pc'[p] # pc[p] )
            => /\ pc'[p] = "idle"
               /\ balance' = balance
               /\ IF req[p].user_id \in DOMAIN balance
                  THEN /\ result'[p].detail = RECORD
                       /\ result'[p].balance = balance[req[p].user_id]
                  ELSE result'[p] = [code |-> 0, detail |-> NONE]
      ]_vars

\* An open has been refused by create_order_atomic because the users row was
\* gone, a lookup of the absent account has returned None, and no position
\* has been written.
C25_Witness ==
    /\ transact = {}
    /\ \E p, q \in Procs :
         /\ req[p].op = "open" /\ pc[p] = "idle"
         /\ result[p].detail = UserNotFound(req[p].user_id)
         /\ req[q].op = "get_user_with_balance" /\ pc[q] = "idle"
         /\ result[q].detail = NONE

\* C26: no adjustment is lost.  In every state, whatever the interleaving of
\* the update_user_balance calls (and of the opens), the balance of an account
\* is the balance it was funded with, minus the committed debits of the opens,
\* plus the amounts added and minus the amounts subtracted by the
\* update_user_balance calls that returned.
C26_NoLostUpdate ==
    \A u \in DOMAIN balance :
        balance[u] * AmountUnit =
            (funded[u] - SumAmounts({d \in debited : d.user_id = u})) * AmountUnit
            + adjusted[u]

\* C27: update_user_balance called with an operation other than "add" or
\* "subtract" raises ValueError at its first statement: the call ends there and
\* neither the balance nor any transaction is touched.
C27_InvalidOperation ==
    [][\A p \in Procs :
         ( /\ pc[p] = "update_user_balance_operation" /\ pc'[p] # pc[p]
           /\ req[p].operation \notin {"add", "subtract"} )
         => /\ pc'[p] = "idle"
            /\ result'[p] = [code |-> 0, detail |-> OperationError(req[p].operation)]
            /\ balance' = balance /\ txn' = txn /\ adjusted' = adjusted
      ]_vars

\* A call with the operation "multiply" has raised ValueError, after an
\* adjustment of the same account went through.
C27_Witness ==
    \E p \in Procs :
        /\ req[p].op = "update_user_balance" /\ pc[p] = "idle"
        /\ req[p].operation = "multiply"
        /\ result[p].detail = OperationError("multiply")
        /\ req[p].user_id \in DOMAIN balance
        /\ adjusted[req[p].user_id] # 0

\* C28: an adjustment changes the stored balance by exactly its amount, for
\* amounts with more fractional digits than BALANCE_SCALE (up to 20): the
\* balance after the UPDATE, and the balance the call returns, is the balance
\* before plus the amount added or minus the amount subtracted.
C28_NoPrecisionLoss ==
    [][\A p \in Procs :
         ( /\ pc[p] = "update_user_balance_commit" /\ pc'[p] = "idle"
           /\ txn[p].user # 0 )
         => /\ balance'[txn[p].user] * AmountUnit =
                  balance[txn[p].user] * AmountUnit + SignedAmount(p)
            /\ result'[p].balance = balance'[txn[p].user]
      ]_vars

\* C29: every error of open and close is reported with the fixed message of
\* its kind, wherever it is raised: "insufficient balance" by the check of
\* the router and by the re-check of create_order_atomic, the duplicate
\* message by the duplicate check, "order not found" by close_order_atomic,
\* and the connection and invalid-response messages by a failure of the
\* oracle (503 and 500); the five messages are pairwise distinct.
C29_FixedMessages ==
    [][ \A p \in Procs :
          (pc[p] # "idle" /\ pc'[p] = "idle" /\ req[p].user_id \in DOMAIN balance)
          => /\ pc[p] \in {"create_order_balance", "atomic_select"}
                  => result'[p].detail = ERROR_INSUFFICIENT_BALANCE
             /\ pc[p] = "create_order_duplicate"
                  => result'[p].detail = ERROR_DUPLICATE_ORDER
             /\ pc[p] = "close_select"
                  => result'[p].detail = ERROR_ORDER_NOT_FOUND
             /\ pc[p] \in {"create_order_price", "close_order_price"}
                  => result'[p].detail =
                        (IF result'[p].code = 503 THEN ERROR_BINANCE_CONNECTION
                                                  ELSE ERROR_BINANCE_INVALID_RESPONSE)
             /\ Cardinality({ERROR_INSUFFICIENT_BALANCE, ERROR_DUPLICATE_ORDER,
                             ERROR_ORDER_NOT_FOUND, ERROR_BINANCE_CONNECTION,
                             ERROR_BINANCE_INVALID_RESPONSE}) = 5
      ]_vars

\* C30: a close for (account, symbol) with no ACTIVE position, with no other
\* call in flight, answers 400 "order not found" whether the oracle answers
\* with a price or fails, and it is not the price fetch that ends the call.
C30_CloseLookupFirst ==
    [][ \A p \in Procs :
          ( /\ pc[p] # "idle" /\ pc'[p] = "idle"
            /\ req[p].op = "close"
            /\ Sequential(p)
            /\ StartActive(p) = {} )
          => /\ result'[p] = [code |-> 400, detail |-> ERROR_ORDER_NOT_FOUND]
             /\ pc[p] # "close_order_price"
      ]_vars

\* C31: open checks the price, then the balance, then the duplicate.  After a
\* quote the call stands at the balance check; a balance below price * quantity
\* is answered "insufficient balance" there, also when an ACTIVE position for
\* the symbol exists; and with no other call in flight the duplicate message is
\* answered only to a call that could pay.
C31_CheckOrder ==
    [][ \A p \in Procs :
          /\ (pc[p] = "create_order_price" /\ pc'[p] \notin {"create_order_price", "idle"})
                => pc'[p] = "create_order_balance"
          /\ ( /\ pc[p] = "create_order_balance" /\ pc'[p] # pc[p]
               /\ req[p].user_id \in DOMAIN balance
               /\ balance[req[p].user_id] < Cost(p)
               /\ ActiveRows(req[p].user_id, req[p].symbol) # {} )
                => /\ pc'[p] = "idle"
                   /\ result'[p] = [code |-> 400, detail |-> ERROR_INSUFFICIENT_BALANCE]
          /\ ( /\ pc[p] # "idle" /\ pc'[p] = "idle" /\ req[p].op = "open"
               /\ Sequential(p)
               /\ result'[p].detail = ERROR_DUPLICATE_ORDER )
                => balance[req[p].user_id] >= Cost(p)
      ]_vars

\* An open, alone in flight, got a quote it could not pay for a symbol the
\* account held ACTIVE, and was answered "insufficient balance".
C31_Witness ==
    \E p \in Procs :
        /\ Done(p) /\ req[p].op = "open"
        /\ Sequential(p) /\ Quoted(p)
        /\ StartActive(p) # {}
        /\ balance[req[p].user_id] < Cost(p)
        /\ result[p] = [code |-> 400, detail |-> ERROR_INSUFFICIENT_BALANCE]

C33_OtherAccountsUntouched ==
    [][ \A p \in Procs :
          pc'[p] # pc[p]
          => \A b \in DOMAIN balance \ {req'[p].user_id} :
                /\ balance'[b] = balance[b]
                /\ {r \in transact' : r.user_id = b} = {r \in transact : r.user_id = b}
      ]_vars

\* Calls for two different accounts overlapped and both succeeded, while the
\* two accounts hold different balances and a position each.
C33_Witness ==
    \E p, q \in Procs :
        /\ Concurrent(p, q) /\ Succeeded(p) /\ Succeeded(q)
        /\ req[p].user_id # req[q].user_id
        /\ balance[req[p].user_id] # balance[req[q].user_id]
        /\ \E r \in transact : r.user_id = req[p].user_id
        /\ \E r \in transact : r.user_id = req[q].user_id

\* C34: under fair scheduling every call that has started is answered, with a
\* success or an error, whatever the other coroutine does: no interleaving of
\* opens and closes leaves a call waiting for ever.
C34_EveryCallFinishes ==
    \A p \in Procs : InFlight(p) ~> Done(p)

\* A close that holds the lock on its position waits for the lock on the users
\* row, held by the open transaction of the other coroutine.
C34_Witness ==
    \E p, q \in Procs :
        /\ p # q
        /\ pc[p] = "close_credit"
        /\ txn[p].upd # {}
        /\ txn[q].user = req[p].user_id

\* C35: an open for an (account, symbol) whose positions are all CLOSED, made
\* with no other call in flight, quoted and affordable, succeeds (unless the
\* store fails inside the transaction) and adds one ACTIVE position with an id
\* no position had before; every CLOSED position stays as it is, field by field.
C35_ReopenAfterClose ==
    [][ \A p \in Procs :
          ( /\ pc[p] # "idle" /\ pc'[p] = "idle"
            /\ req[p].op = "open"
            /\ Sequential(p) /\ Quoted(p)
            /\ StartActive(p) = {} /\ StartClosed(p) # {}
            /\ balance[req[p].user_id] >= Cost(p) )
          => /\ \/ result'[p] = [code |-> 500, detail |-> STORAGE_ERROR]
                \/ /\ result'[p].code = 201
                   /\ \E r2 \in transact' :
                         /\ transact' = transact \cup {r2}
                         /\ \A r \in transact : r.id # r2.id
                         /\ r2.user_id = req[p].user_id /\ r2.symbol = req[p].symbol
                         /\ r2.status = STATUS_ACTIVE
                         /\ r2.buy_price = req[p].price /\ r2.quantity = req[p].quantity
             /\ \A r \in transact : r.status = STATUS_CLOSED => r \in transact'
      ]_vars

\* A position was closed and a later open for the same account and symbol has
\* created a second position next to it.
C35_Witness ==
    \E p \in Procs :
        /\ Succeeded(p) /\ req[p].op = "open"
        /\ Sequential(p)
        /\ StartActive(p) = {} /\ StartClosed(p) # {}
        /\ \E r, r2 \in transact :
              /\ r.id \in {x.id : x \in StartClosed(p)} /\ r.status = STATUS_CLOSED
              /\ r2.id # r.id /\ r2.status = STATUS_ACTIVE
              /\ r2.user_id = r.user_id /\ r2.symbol = r.symbol

\* Two symbols are equal or differ only in the case of their letters.
SameLetters(a, b) == a = b \/ {a, b} = {"ETHUSDT", "ethusdt"}

UpperCase(s) == s \in {"BTCUSDT", "ETHUSDT"}

\* C36: symbols are treated case-insensitively by upper-casing.  Every stored
\* position symbol is upper-case; a quoted, affordable open whose symbol has
\* the letters of an ACTIVE position's symbol of the account, in any case, is
\* answered as a duplicate and stores nothing; a quoted close whose symbol has
\* the letters of the ACTIVE position's symbol closes that position (unless
\* the store fails inside the transaction); and a listing with a symbol
\* returns the positions of the account whose symbol has the same letters.
C36_SymbolCase ==
    [][ /\ \A r \in transact' : UpperCase(r.symbol)
        /\ \A p \in ApiProcs :
             LET u == req[p].user_id
                 Held == {r \in transact : /\ r.user_id = u
                                           /\ r.status = STATUS_ACTIVE
                                           /\ SameLetters(r.symbol, req[p].raw)}
             IN
             /\ ( /\ pc[p] # "idle" /\ pc'[p] = "idle" /\ req[p].op = "open"
                  /\ Quoted(p) /\ Held # {}
                  /\ balance[u] >= Cost(p) )
                   => /\ result'[p] = [code |-> 400, detail |-> ERROR_DUPLICATE_ORDER]
                      /\ transact' = transact
             /\ ( /\ pc[p] # "idle" /\ pc'[p] = "idle" /\ req[p].op = "close"
                  /\ Quoted(p) /\ Held # {} )
                   => \/ result'[p] = [code |-> 500, detail |-> STORAGE_ERROR]
                      \/ /\ result'[p].code = 200
                         /\ \A r \in Held :
                               [r EXCEPT !.sell_price = req[p].price,
                                         !.status = STATUS_CLOSED] \in transact'
             /\ ( /\ pc[p] = "list_orders_symbols" /\ pc'[p] = "idle"
                  /\ req[p].raw # NULL )
                   => {result'[p].orders[i].id : i \in 1..Len(result'[p].orders)}
                        = {r.id : r \in {x \in transact :
                                           /\ x.user_id = u
                                           /\ SameLetters(x.symbol, req[p].raw)
                                           /\ req[p].active_only
                                                 => x.status = STATUS_ACTIVE}}
      ]_vars

\* An open sent as "ethusdt" met the account's ACTIVE position stored as
\* "ETHUSDT" and was answered as a duplicate.
C36_Witness ==
    \E p \in ApiProcs :
        /\ Done(p) /\ req[p].op = "open"
        /\ req[p].raw = "ethusdt"
        /\ \E r \in transact :
              /\ r.id \in {x.id : x \in StartActive(p)}
              /\ r.user_id = req[p].user_id /\ r.symbol = "ETHUSDT"
        /\ result[p] = [code |-> 400, detail |-> ERROR_DUPLICATE_ORDER]

\* The symbols of the orders of the listing answered to p.
ListedSymbols(p) == {result[p].orders[i].symbol : i \in 1..Len(result[p].orders)}

ListingAnswered(p) == Done(p) /\ req[p].op = "list" /\ result[p].code = 200

\* C37: in every answer of the order listing, every symbol of a returned order
\* is in unique_symbols, also when opens or closes of another call commit
\* between the listing's two reads.
C37_ListedSymbolsKnown ==
    \A p \in Procs : ListingAnswered(p) => ListedSymbols(p) \subseteq result[p].unique_symbols

\* A listing without filters returned orders, and an open of another call
\* committed between its two reads: unique_symbols has a symbol that none of
\* the returned orders has.
C37_Witness ==
    \E p \in Procs :
        /\ ListingAnswered(p) /\ ~ Sequential(p)
        /\ req[p].symbol = NULL /\ ~ req[p].active_only
        /\ ListedSymbols(p) # {}
        /\ result[p].unique_symbols \ ListedSymbols(p) # {}

\* A value of the SQL projection as the answer carries it: absent when NULL.
Shown(v) == IF IsNull(v) THEN NULL ELSE str(v)

\* C38: the computed fields of the router's _serialize_transaction agree with
\* those of the SQL projection of get_user_transactions: for every order of a
\* listing, diff, buyAggregate, sellAggregate and diffDollar are present exactly
\* when the projection's are, with the same values.
C38_ComputedFieldsAgree ==
    \A p \in ApiProcs :
        ListingAnswered(p)
        => \A i \in 1..Len(result[p].orders) :
             LET o == result[p].orders[i] IN
             \E r \in transact :
                /\ r.id = o.id
                /\ o.diff = Shown(Projection(r).diff)
                /\ o.buyAggregate = Shown(Projection(r).buyAggregate)
                /\ o.sellAggregate = Shown(Projection(r).sellAggregate)
                /\ o.diffDollar = Shown(Projection(r).diffDollar)

\* C39: between a close_db_pool and the next one at most one pool is created,
\* also when several coroutines call get_db_pool while there is no pool; when
\* close_db_pool has closed the pool, _db_pool is None and the next pool
\* created is a new one; and a close_db_pool that finds no pool changes
\* neither _db_pool nor any pool.
C39_OnePool ==
    [][ /\ Cardinality(epoch') <= 1
        /\ \A p \in Procs :
             /\ (pc[p] = "close_db_pool_close" /\ pc'[p] = "idle")
                   => /\ _db_pool' = NoPool
                      /\ pool_state'[pool[p]] = "closed"
             /\ (pc[p] = "get_db_pool_create" /\ pc'[p] = "idle")
                   => /\ _db_pool' \notin 1..Len(pool_state)
                      /\ pool_state'[_db_pool'] = "open"
        /\ (_db_pool = NoPool /\ \A p \in Procs : pc'[p] = pc[p])
              => <<_db_pool, pool_state>>' = <<_db_pool, pool_state>>
      ]_vars

====
